---- MODULE Spec2Model ----
(***************************************************************************)
(* Model of the astrological context ingestion and retrieval pipeline of   *)
(* karmona-backend: the daily scrape run (DailyScraper), the embedding      *)
(* store (SupabaseVectorService.store_document), the source catalog        *)
(* (scraping_sources) and the two retrieve_context implementations.        *)
(*                                                                         *)
(* Python strings are modelled as sequences of tokens: an f-string is the  *)
(* tuple of its literal pieces and interpolated values, str.format          *)
(* replaces the placeholder token.  None is the empty option {} where a    *)
(* value may be missing.                                                   *)
(***************************************************************************)
EXTENDS Integers, Sequences, FiniteSets, TLC

\* ------------------------------------------------------------------ bounds
\* number of ingestion runs made one after the other over the same stores
MaxRuns == 2
\* number of external failures injected into one ingestion run
MaxFaults == 2
\* number of targets, counted from the end of a run, in which the
\* specification with fairness injects its failure
MaxLate == 2

\* ----------------------------------------------------------------- state
VARIABLES
  pc,          \* position of the ingestion job: "idle", "ephemeris", "scrape", "done"
  run,         \* number of runs started so far
  today,       \* date.today() captured by the current run (day of January 2025,
               \* day 1 being the day of the first run)
  si,          \* index of the current source in get_enabled_sources
  ui,          \* index of the current url in that source's get_urls
  results,     \* the summary dictionary of run_daily_scrape
  calls,       \* fetch_and_extract calls of the current run, in order
  outcomes,    \* what happened to each target of the current run, in order
  eph,         \* what happened in the ephemeris step of the current run
  s3,          \* backup bucket: object key -> body
  store,       \* rows of the astrology_documents table
  stored,      \* history: every successful store_document call of a run
  faults,      \* failures injected so far
  mode,        \* which specification drives the state
  req,         \* the last direct call and what the backend answered
  out,         \* the value the last direct call returned
  fx,          \* the fetch_and_extract call in progress: its position and locals
  remote,      \* the remote browsers and browser sessions that exist
  log,         \* the external calls made by the current run, in order
  catalog,     \* the list SCRAPING_SOURCES of the process
  writers      \* the store_document calls of ingestion runs that overlap: the
               \* position and the locals of each

vars == << pc, run, today, si, ui, results, calls, outcomes, eph, s3, store,
           stored, faults, mode, req, out, fx, remote, log, catalog, writers >>

fetchVars == << fx, remote, log >>

runVars == << pc, run, today, si, ui, results, calls, outcomes, eph, faults >>

\* ------------------------------------------------------- source catalog
ZODIAC_SIGNS ==
  << "aries", "taurus", "gemini", "cancer", "leo", "virgo",
     "libra", "scorpio", "sagittarius", "capricorn", "aquarius", "pisces" >>

\* str.capitalize() on the sign names of ZODIAC_SIGNS
capitalize(sign) ==
  CASE sign = "aries" -> "Aries"
    [] sign = "taurus" -> "Taurus"
    [] sign = "gemini" -> "Gemini"
    [] sign = "cancer" -> "Cancer"
    [] sign = "leo" -> "Leo"
    [] sign = "virgo" -> "Virgo"
    [] sign = "libra" -> "Libra"
    [] sign = "scorpio" -> "Scorpio"
    [] sign = "sagittarius" -> "Sagittarius"
    [] sign = "capricorn" -> "Capricorn"
    [] sign = "aquarius" -> "Aquarius"
    [] sign = "pisces" -> "Pisces"
    [] OTHER -> sign

\* str.lower() on a context produced by capitalize
lower(context) ==
  IF \E i \in DOMAIN ZODIAC_SIGNS : capitalize(ZODIAC_SIGNS[i]) = context
  THEN ZODIAC_SIGNS[CHOOSE i \in DOMAIN ZODIAC_SIGNS :
                      capitalize(ZODIAC_SIGNS[i]) = context]
  ELSE context

\* the {sign} replacement field of a template
SIGN_FIELD == "{sign}"

\* template.format(sign=value): every {sign} field is replaced by value
format(template, value) ==
  [i \in DOMAIN template |->
     IF template[i] = SIGN_FIELD THEN value ELSE template[i]]

\* a template or url that was not given (None)
NoText == << >>

\* Three entries of SCRAPING_SOURCES, one of each shape the catalog holds:
\* an enabled sign-specific source, a disabled single-page source and an
\* enabled single-page source (the other entries repeat these shapes).
SCRAPING_SOURCES ==
  << [ name |-> "astrostyle",
       source_type |-> "sign_specific",
       url_pattern |-> << "https://astrostyle.com/horoscopes/daily/", "{sign}", "/" >>,
       url |-> NoText,
       extraction_prompt |->
         << "Extract TODAY'S COMPLETE daily horoscope for ", "{sign}",
            ". Include ALL of the following: ..." >>,
       enabled |-> TRUE ],
     [ name |-> "cafeastrology_cosmic_overview",
       source_type |-> "cosmic_overview",
       url_pattern |-> NoText,
       url |-> << "https://www.cafeastrology.com/" >>,
       extraction_prompt |-> << "Extract TODAY's cosmic information: ..." >>,
       enabled |-> FALSE ],
     [ name |-> "astro_seek",
       source_type |-> "cosmic_overview",
       url_pattern |-> NoText,
       url |-> << "https://www.astro-seek.com/" >>,
       extraction_prompt |->
         << "Extract current planetary positions and aspects: ..." >>,
       enabled |-> TRUE ] >>

\* ScrapingSource.get_urls
get_urls(source) ==
  IF source.source_type = "sign_specific" /\ source.url_pattern # NoText
  THEN [i \in DOMAIN ZODIAC_SIGNS |->
          [ url |-> format(source.url_pattern, ZODIAC_SIGNS[i]),
            context |-> capitalize(ZODIAC_SIGNS[i]) ]]
  ELSE IF source.source_type \in {"cosmic_overview", "article_based"}
          /\ source.url # NoText
       THEN << [ url |-> source.url, context |-> "general" ] >>
       ELSE << >>

\* a source list that returns the whole catalog
get_enabled_sources_all == catalog

\* get_enabled_sources
get_enabled_sources == SelectSeq(catalog, LAMBDA s : s.enabled)

RECURSIVE SumUrls(_, _)
SumUrls(sources, n) ==
  IF n = 0 THEN 0 ELSE SumUrls(sources, n - 1) + Len(get_urls(sources[n]))

\* a count over the whole catalog, the disabled sources included
count_total_scrapes_all == SumUrls(catalog, Len(catalog))

count_total_scrapes == SumUrls(get_enabled_sources, Len(get_enabled_sources))

\* date.isoformat(): year, month and day in ISO order
isoformat(day) == << 2025, 1, day >>

\* ------------------------------------------------------ embedding store
\* SupabaseVectorService._generate_embedding: the vector the embedding
\* service computes for a text (a deterministic function of the text)
_generate_embedding(text) == << "titan-embed-text-v2", text >>

Columns == {"id", "content", "metadata", "embedding", "created_at"}

\* table('astrology_documents').upsert(payload): insert, or on a conflict on
\* the primary key id update the columns the payload carries
upsert(rows, payload) ==
  IF \E old \in rows : old.id = payload.id
  THEN LET old == CHOOSE o \in rows : o.id = payload.id
       IN  (rows \ {old}) \cup
           { [c \in Columns |->
                IF c \in DOMAIN payload THEN payload[c] ELSE old[c]] }
  ELSE rows \cup
       { [c \in Columns |->
            IF c \in DOMAIN payload THEN payload[c] ELSE << >>] }

\* a payload that leaves the metadata column out
store_payload_no_metadata(document_id, content, metadata) ==
  [ id |-> document_id,
    content |-> content,
    embedding |-> _generate_embedding(content),
    created_at |-> metadata.scraped_at ]

\* store_document, kept apart from the table so that the payload is visible
store_payload(document_id, content, metadata) ==
  [ id |-> document_id,
    content |-> content,
    metadata |-> metadata,
    embedding |-> _generate_embedding(content),
    created_at |-> metadata.scraped_at ]

\* SupabaseVectorService.store_document; svc is what the external services
\* do: "ok", "embed_error" (invoke_model raises), "upsert_error" (execute raises)
store_document(rows, document_id, content, metadata, svc) ==
  IF svc = "ok"
  THEN [ ret |-> TRUE,
         rows |-> upsert(rows, store_payload(document_id, content, metadata)) ]
  ELSE [ ret |-> FALSE, rows |-> rows ]

\* --------------------------------------------------------------- scraping
\* the language model's reply for a page in a run
Reply(r, url) == << "reply", r, url >>

\* BrowserScraper.fetch_and_extract; ext is what the browser and the model do:
\* "ok", "timeout" (any exception inside), "empty" (the model replies "")
fetch_and_extract(url, extraction_prompt, r, ext) ==
  IF ext = "timeout"
  THEN [ success |-> FALSE, data |-> << >>, url |-> url, error |-> <<"Timeout">> ]
  ELSE [ success |-> TRUE,
         data |-> IF ext = "empty" THEN << >> ELSE Reply(r, url),
         url |-> url, error |-> << >> ]

\* scrape_source without the check of result['success'] and result['data']
scrape_source_unchecked(source_name, url, prompt, context, r, ext) ==
  LET formatted_prompt == format(prompt, context)
      result == fetch_and_extract(url, formatted_prompt, r, ext)
      tags == (IF context # "general"
               THEN << << "sign-", lower(context) >> >> ELSE << >>)
              \o << << "source-", source_name >> >>
  IN  [ call |-> [ url |-> url, extraction_prompt |-> formatted_prompt ],
        document |->
          { [ source |-> source_name, url |-> url, content |-> result.data,
              context |-> context, tags |-> tags ] } ]

\* scrape_source handing the prompt template over without prompt.format
scrape_source_raw_prompt(source_name, url, prompt, context, r, ext) ==
  LET result == fetch_and_extract(url, prompt, r, ext)
      tags == (IF context # "general"
               THEN << << "sign-", lower(context) >> >> ELSE << >>)
              \o << << "source-", source_name >> >>
  IN  [ call |-> [ url |-> url, extraction_prompt |-> prompt ],
        document |->
          IF result.success /\ result.data # << >>
          THEN { [ source |-> source_name, url |-> url, content |-> result.data,
                   context |-> context, tags |-> tags ] }
          ELSE {} ]

\* scrape_source looking at result['success'] alone, not at result['data']
scrape_source_success_only(source_name, url, prompt, context, r, ext) ==
  LET formatted_prompt == format(prompt, context)
      result == fetch_and_extract(url, formatted_prompt, r, ext)
      tags == (IF context # "general"
               THEN << << "sign-", lower(context) >> >> ELSE << >>)
              \o << << "source-", source_name >> >>
  IN  [ call |-> [ url |-> url, extraction_prompt |-> formatted_prompt ],
        document |->
          IF result.success
          THEN { [ source |-> source_name, url |-> url, content |-> result.data,
                   context |-> context, tags |-> tags ] }
          ELSE {} ]

\* DailyScraper.scrape_source: the call it makes and the document it
\* returns ({} for None)
scrape_source(source_name, url, prompt, context, r, ext) ==
  LET formatted_prompt == format(prompt, context)
      result == fetch_and_extract(url, formatted_prompt, r, ext)
      tags == (IF context # "general"
               THEN << << "sign-", lower(context) >> >> ELSE << >>)
              \o << << "source-", source_name >> >>
  IN  [ call |-> [ url |-> url, extraction_prompt |-> formatted_prompt ],
        document |->
          IF result.success /\ result.data # << >>
          THEN { [ source |-> source_name, url |-> url, content |-> result.data,
                   context |-> context, tags |-> tags ] }
          ELSE {} ]

\* doc_id that leaves the context out
doc_id_no_context(source, context, day) == << source, "-", isoformat(day) >>

\* doc_id that leaves the date out
doc_id_no_date(source, context, day) ==
  IF context # "general"
  THEN << source, "-", context >>
  ELSE << source >>

\* doc_id of _upload_to_s3_and_supabase
doc_id(source, context, day) ==
  IF context # "general"
  THEN << source, "-", context, "-", isoformat(day) >>
  ELSE << source, "-", isoformat(day) >>

\* filename of _upload_to_s3_and_supabase
filename(source, context, day) ==
  IF context # "general"
  THEN << "daily/", isoformat(day), "/", source, "_", context, ".json" >>
  ELSE << "daily/", isoformat(day), "/", source, ".json" >>

\* _upload_to_s3_and_supabase with the two writes in the other order: the
\* row is stored first and the backup object put afterwards
_upload_to_s3_and_supabase_store_first(bucket, rows, document, day, r, put, svc) ==
  LET id == doc_id(document.source, document.context, day)
      metadata == [ date |-> isoformat(day),
                    source |-> document.source,
                    url |-> document.url,
                    tags |-> document.tags,
                    scraped_at |-> << "utcnow", r >>,
                    context |-> document.context ]
      kb_document == [ id |-> id, content |-> document.content,
                       metadata |-> metadata ]
      key == filename(document.source, document.context, day)
      sd == store_document(rows, id, document.content, metadata, svc)
  IN  [ ret |-> put = "ok",
        s3 |-> IF put = "ok" THEN (key :> kb_document) @@ bucket ELSE bucket,
        rows |-> sd.rows,
        wrote |-> IF sd.ret
                  THEN { [ run |-> r, day |-> day, source |-> document.source,
                           context |-> document.context, id |-> id,
                           content |-> document.content ] }
                  ELSE {} ]

\* DailyScraper._upload_to_s3_and_supabase; put is what put_object does
\* ("ok" or "error"), svc what the embedding service and the table do.
\* The value store_document returns is not looked at.
_upload_to_s3_and_supabase(bucket, rows, document, day, r, put, svc) ==
  LET id == doc_id(document.source, document.context, day)
      metadata == [ date |-> isoformat(day),
                    source |-> document.source,
                    url |-> document.url,
                    tags |-> document.tags,
                    scraped_at |-> << "utcnow", r >>,
                    context |-> document.context ]
      kb_document == [ id |-> id, content |-> document.content,
                       metadata |-> metadata ]
      key == filename(document.source, document.context, day)
      sd == store_document(rows, id, document.content, metadata, svc)
  IN  IF put # "ok"
      THEN [ ret |-> FALSE, s3 |-> bucket, rows |-> rows, wrote |-> {} ]
      ELSE [ ret |-> TRUE,
             s3 |-> (key :> kb_document) @@ bucket,
             rows |-> sd.rows,
             wrote |-> IF sd.ret
                       THEN { [ run |-> r, day |-> day, source |-> document.source,
                                context |-> document.context, id |-> id,
                                content |-> document.content ] }
                       ELSE {} ]

\* -------------------------------------------------------------- ephemeris
Range(seq) == { seq[i] : i \in DOMAIN seq }

\* Longitudes are counted in thousandths of a degree and speeds in hundred
\* thousandths of a degree per day: 30000 stands for 30.0 degrees, -1 for a
\* daily motion of -0.00001.
DEGREE == 1000

\* ephemeris_service.ZODIAC_SIGNS: the signs and the degree each starts at
SIGN_STARTS ==
  << << "Aries", 0 >>, << "Taurus", 30 >>, << "Gemini", 60 >>, << "Cancer", 90 >>,
     << "Leo", 120 >>, << "Virgo", 150 >>, << "Libra", 180 >>, << "Scorpio", 210 >>,
     << "Sagittarius", 240 >>, << "Capricorn", 270 >>, << "Aquarius", 300 >>,
     << "Pisces", 330 >> >>

\* round(x, n) of Python for a decimal x counted in units of which unit make
\* up the last digit kept: the nearest multiple of unit, a tie going to the
\* even one; a negative x nearer to zero than half a unit gives -0.0, which
\* is zero
round(x, unit) ==
  LET q == x \div unit
      r == x % unit
  IN  IF 2 * r < unit THEN q * unit
      ELSE IF 2 * r > unit THEN (q + 1) * unit
      ELSE IF q % 2 = 0 THEN q * unit ELSE (q + 1) * unit

\* A float handed to _degrees_to_sign: a count of thousandths of a degree,
\* and whether it lies below that count by less than the floats near 360 can
\* tell apart (half of 2^-44 degrees).  Only zero is given such a neighbour:
\* it stands for a negative float like -1e-17.
float(thousandths) == [ thousandths |-> thousandths, less |-> FALSE ]

TINY_NEGATIVE == [ thousandths |-> 0, less |-> TRUE ]

\* degrees % 360 of Python floats (line 59): the exact remainder rounded to
\* the nearest float, which for 360 - 1e-17 is 360.0
mod360(degrees) ==
  IF degrees.less /\ degrees.thousandths % (360 * DEGREE) = 0
  THEN 360 * DEGREE
  ELSE degrees.thousandths % (360 * DEGREE)

\* the entries of ZODIAC_SIGNS whose test of line 64 the normalised value d
\* passes
signs_at(d) ==
  { n \in DOMAIN SIGN_STARTS :
      /\ SIGN_STARTS[n][2] * DEGREE <= d
      /\ d < (IF n < 12 THEN SIGN_STARTS[n + 1][2] ELSE 360) * DEGREE }

\* EphemerisService._degrees_to_sign
_degrees_to_sign(degrees) ==
  LET d == mod360(degrees)
  IN  IF signs_at(d) = {}
      THEN [ sign |-> "Pisces", degrees |-> 0,
             formatted |-> << 0, "d", 0, "m", "Pisces" >> ]
      ELSE LET i == CHOOSE n \in signs_at(d) : \A m \in signs_at(d) : n <= m
               degrees_in_sign == d - SIGN_STARTS[i][2] * DEGREE
               deg_int == degrees_in_sign \div DEGREE
               minutes == ((degrees_in_sign - deg_int * DEGREE) * 60) \div DEGREE
           IN  [ sign |-> SIGN_STARTS[i][1],
                 degrees |-> round(degrees_in_sign, 10),
                 formatted |-> << deg_int, "d", minutes, "m", SIGN_STARTS[i][1] >> ]

\* the bodies calculate_positions asks for, in the order of its dictionary
PLANETS ==
  << "sun", "moon", "mercury", "venus", "mars", "jupiter", "saturn", "uranus",
     "neptune", "pluto", "north_node", "chiron" >>

\* what swe.calc_ut answers for a body: a longitude and a speed, or an error
Position(longitude, speed) == [ longitude |-> longitude, speed |-> speed ]

CalcError == [ raises |-> "swisseph.Error" ]

\* calculate_positions, lines 117-143: the entry of one body
body_entry(result) ==
  IF "raises" \in DOMAIN result
  THEN [ error |-> result.raises ]
  ELSE LET sign_info == _degrees_to_sign(float(result.longitude))
       IN  [ longitude |-> result.longitude,
             sign |-> sign_info.sign,
             degrees_in_sign |-> sign_info.degrees,
             formatted |-> sign_info.formatted,
             retrograde |-> result.speed < 0,
             daily_motion |-> round(result.speed, 10) ]

\* what swe.calc_ut answers for the bodies on the day of an ingestion run
calc_ut(day) ==
  [ planet \in Range(PLANETS) |->
      Position(((CHOOSE n \in DOMAIN PLANETS : PLANETS[n] = planet) * 27 + day)
                 * DEGREE + 250,
               IF planet \in {"mercury", "north_node"} THEN -12345 ELSE 98565) ]

\* calculate_positions without the try around the calculation of a body
calculate_positions_no_try(swe_available, day, calc) ==
  IF ~swe_available \/ \E planet \in Range(PLANETS) : "raises" \in DOMAIN calc[planet]
  THEN [ error |-> "Swiss Ephemeris not available" ]
  ELSE [ date |-> isoformat(day),
         positions |-> [ planet \in Range(PLANETS) |-> body_entry(calc[planet]) ],
         calculated_at |-> << "utcnow", day >> ]

\* EphemerisService.calculate_positions; calc is what swe.calc_ut answers
\* for each body
calculate_positions(swe_available, day, calc) ==
  IF ~swe_available
  THEN [ error |-> "Swiss Ephemeris not available" ]
  ELSE [ date |-> isoformat(day),
         positions |-> [ planet \in Range(PLANETS) |-> body_entry(calc[planet]) ],
         calculated_at |-> << "utcnow", day >> ]

\* EphemerisService.format_for_llm
format_for_llm(positions) ==
  IF "error" \in DOMAIN positions
  THEN << "Planetary position data unavailable." >>
  ELSE << "**Planetary Positions for ", positions.date, ":**", positions.positions >>

\* EphemerisService.upload_to_s3
upload_to_s3(bucket, positions, put) ==
  LET target_date == positions.date
      key == << "ephemeris/", target_date, "/planetary_positions.json" >>
      kb_document == [ id |-> << "ephemeris", "-", target_date >>,
                       content |-> format_for_llm(positions),
                       metadata |-> [ tags |-> << "ephemeris", "planetary-positions", "daily" >>,
                                      calculated_at |-> positions.calculated_at ] ]
  IN  IF put = "ok"
      THEN [ ret |-> TRUE, s3 |-> (key :> kb_document) @@ bucket ]
      ELSE [ ret |-> FALSE, s3 |-> bucket ]

\* EphemerisService.run_daily_calculation
run_daily_calculation(bucket, swe_available, day, put) ==
  LET positions == calculate_positions(swe_available, day, calc_ut(day))
      up == upload_to_s3(bucket, positions, put)
  IN  IF "error" \in DOMAIN positions
      THEN [ result |-> positions, s3 |-> bucket ]
      ELSE [ result |-> [ success |-> up.ret, date |-> isoformat(day),
                          positions |-> positions ],
             s3 |-> up.s3 ]

\* a test for the absence of 'error' in place of the value of 'success'
get_success_no_error(result) == "error" \notin DOMAIN result

\* dict.get('success') of the value run_daily_calculation returns
get_success(result) == "success" \in DOMAIN result /\ result.success

\* --------------------------------------------------------------- the run
EPHEMERIS == << "ephemeris", "_", "planetary_positions" >>

\* f"{source_config.name}_{context}"
ident(name, context) == << name, "_", context >>

\* the position in the two nested loops after (i, j), skipping sources
\* whose get_urls is empty; i = Len(sources) + 1 when the loops are over
RECURSIVE Advance(_, _, _)
Advance(sources, i, j) ==
  IF i > Len(sources) THEN << i, 1 >>
  ELSE IF j <= Len(get_urls(sources[i])) THEN << i, j >>
       ELSE Advance(sources, i + 1, 1)

\* "run" explores one ingestion run under up to MaxFaults failures, "reruns"
\* up to MaxRuns runs over the same stores under at most one failure, "steps"
\* one run under at most one failure with every external call of
\* fetch_and_extract a step of its own, "live" the same with the failure in
\* one of the last MaxLate targets
RunLimit == IF mode = "reruns" THEN MaxRuns ELSE 1

FaultLimit ==
  CASE mode = "run" -> MaxFaults
    [] mode = "live" -> IF Len(calls) < count_total_scrapes - MaxLate THEN 0 ELSE 1
    [] OTHER -> 1

\* the external calls of fetch_and_extract are steps of their own
Stepwise == mode \in {"steps", "live"}

\* no fetch_and_extract call is in progress
NoFetch ==
  [ pc |-> "idle", k |-> 0, browser_id |-> 0, session_id |-> 0, page |-> FALSE,
    exc |-> "none", data |-> "none", cleanup |-> {}, ext |-> "none" ]

NoRemote == [ browsers |-> {}, sessions |-> {} ]

\* an external call made while target k is processed, and whether it returned
Event(k, op, ok) == [ k |-> k, op |-> op, ok |-> ok ]

\* run_daily_scrape, lines 179-195: the date, the sources and the summary
StartRun ==
  /\ mode \in {"run", "reruns", "steps", "live"}
  /\ pc \in {"idle", "done"}
  /\ run < RunLimit
  /\ \E day \in (IF run = 0 THEN {today} ELSE {today, today + 1}) :
       /\ today' = day
       /\ results' = [ date |-> isoformat(day), scraped |-> << >>, failed |-> << >>,
                       uploaded |-> 0, total |-> count_total_scrapes + 1 ]
  /\ run' = run + 1
  /\ pc' = "ephemeris"
  /\ si' = 1 /\ ui' = 1
  /\ calls' = << >> /\ outcomes' = << >> /\ eph' = "none"
  /\ log' = << >>
  /\ UNCHANGED << s3, store, stored, faults, mode, req, out, fx, remote, catalog, writers >>

\* run_daily_scrape, lines 202-213: the ephemeris step.  env is what the
\* environment does: "ok", "unavailable" (pyswisseph missing), "raise" (the
\* call raises), "put_error" (put_object raises)
EphemerisStep ==
  /\ mode \in {"run", "reruns", "steps", "live"}
  /\ pc = "ephemeris"
  /\ \E env \in {"ok", "unavailable", "raise", "put_error"} :
       /\ env = "ok" \/ faults < FaultLimit
       /\ faults' = IF env = "ok" THEN faults ELSE faults + 1
       /\ eph' = env
       /\ LET rdc == run_daily_calculation(s3, env # "unavailable", today,
                                           IF env = "put_error" THEN "error" ELSE "ok")
          IN  IF env = "raise"
              THEN /\ results' = [results EXCEPT !.failed = Append(@, EPHEMERIS)]
                   /\ s3' = s3
              ELSE /\ s3' = rdc.s3
                   /\ results' =
                        IF get_success(rdc.result)
                        THEN [results EXCEPT !.scraped = Append(@, EPHEMERIS),
                                             !.uploaded = @ + 1]
                        ELSE [results EXCEPT !.failed = Append(@, EPHEMERIS)]
  /\ LET p == Advance(get_enabled_sources, 1, 1)
     IN  si' = p[1] /\ ui' = p[2]
  /\ pc' = "scrape"
  /\ UNCHANGED << run, today, calls, outcomes, store, stored, mode, req, out >>
  /\ UNCHANGED fetchVars
  /\ UNCHANGED << catalog, writers >>

\* run_daily_scrape, lines 243-279: one iteration of the inner loop.  Under
\* "steps" the fetch_and_extract call of the iteration has been made step by
\* step and ext is what it returned; otherwise ext is chosen here.
ScrapeTarget ==
  /\ mode \in {"run", "reruns", "steps", "live"}
  /\ pc = "scrape"
  /\ si <= Len(get_enabled_sources)
  /\ LET source_config == get_enabled_sources[si]
         url_info == get_urls(source_config)[ui]
         id == ident(source_config.name, url_info.context)
         k == Len(calls) + 1
     IN  \E ext \in {"ok", "timeout", "empty"} :
         \E put \in {"ok", "error"} :
         \E svc \in {"ok", "embed_error", "upsert_error"} :
           /\ Stepwise => fx.pc = "returned" /\ ext = fx.ext
           /\ ext # "ok" => put = "ok" /\ svc = "ok"
           /\ put # "ok" => svc = "ok"
           /\ LET fault == \/ ~Stepwise /\ ext # "ok"
                           \/ put # "ok"
                           \/ svc # "ok"
              IN  /\ ~fault \/ faults < FaultLimit
                  /\ faults' = IF fault THEN faults + 1 ELSE faults
           /\ LET ss == scrape_source(source_config.name, url_info.url,
                                      source_config.extraction_prompt,
                                      url_info.context, run, ext)
              IN  /\ calls' = Append(calls, ss.call)
                  /\ outcomes' = Append(outcomes,
                       [ ident |-> id, ext |-> ext,
                         put |-> IF ext = "ok" THEN put ELSE "skipped",
                         svc |-> IF ext = "ok" /\ put = "ok" THEN svc ELSE "skipped" ])
                  /\ log' = IF ~Stepwise THEN log
                            ELSE log
                                 \o (IF ext = "ok"
                                     THEN << Event(k, "put_object", put = "ok") >>
                                     ELSE << >>)
                                 \o (IF ext = "ok" /\ put = "ok"
                                     THEN << Event(k, "store_document", svc = "ok") >>
                                     ELSE << >>)
                                 \o << Event(k, "recorded", TRUE) >>
                  /\ IF ss.document = {}
                     THEN /\ results' = [results EXCEPT !.failed = Append(@, id)]
                          /\ UNCHANGED << s3, store, stored >>
                     ELSE LET document == CHOOSE d \in ss.document : TRUE
                              up == _upload_to_s3_and_supabase(s3, store, document,
                                                               today, run, put, svc)
                          IN  /\ s3' = up.s3
                              /\ store' = up.rows
                              /\ stored' = stored \cup up.wrote
                              /\ results' =
                                   IF up.ret
                                   THEN [results EXCEPT !.scraped = Append(@, id),
                                                        !.uploaded = @ + 1]
                                   ELSE [results EXCEPT !.failed = Append(@, id)]
  /\ LET p == Advance(get_enabled_sources, si, ui + 1)
     IN  si' = p[1] /\ ui' = p[2]
  /\ fx' = NoFetch
  /\ UNCHANGED << pc, run, today, eph, mode, req, out, remote, catalog, writers >>

\* run_daily_scrape, lines 281-294: the loops are over, the summary is returned
FinishRun ==
  /\ mode \in {"run", "reruns", "steps", "live"}
  /\ pc = "scrape"
  /\ si > Len(get_enabled_sources)
  /\ pc' = "done"
  /\ UNCHANGED << run, today, si, ui, results, calls, outcomes, eph, s3, store,
                  stored, faults, mode, req, out >>
  /\ UNCHANGED fetchVars
  /\ UNCHANGED << catalog, writers >>

NoRequest == [ op |-> "none" ]

Init ==
  /\ mode = "run"
  /\ pc = "idle" /\ run = 0 /\ today = 1 /\ si = 1 /\ ui = 1
  /\ results = [ date |-> isoformat(1), scraped |-> << >>, failed |-> << >>,
                 uploaded |-> 0, total |-> 0 ]
  /\ calls = << >> /\ outcomes = << >> /\ eph = "none"
  /\ s3 = << >> /\ store = {} /\ stored = {} /\ faults = 0
  /\ req = NoRequest /\ out = << >>
  /\ fx = NoFetch /\ remote = NoRemote /\ log = << >>
  /\ catalog = SCRAPING_SOURCES /\ writers = << >>

Next == StartRun \/ EphemerisStep \/ ScrapeTarget \/ FinishRun

Spec == Init /\ [][Next]_vars

InitReruns ==
  /\ mode = "reruns"
  /\ pc = "idle" /\ run = 0 /\ today = 1 /\ si = 1 /\ ui = 1
  /\ results = [ date |-> isoformat(1), scraped |-> << >>, failed |-> << >>,
                 uploaded |-> 0, total |-> 0 ]
  /\ calls = << >> /\ outcomes = << >> /\ eph = "none"
  /\ s3 = << >> /\ store = {} /\ stored = {} /\ faults = 0
  /\ req = NoRequest /\ out = << >>
  /\ fx = NoFetch /\ remote = NoRemote /\ log = << >>
  /\ catalog = SCRAPING_SOURCES /\ writers = << >>

NextReruns == StartRun \/ EphemerisStep \/ ScrapeTarget \/ FinishRun

SpecReruns == InitReruns /\ [][NextReruns]_vars

\* ------------------------------------- fetch_and_extract, step by step
\* the run is inside the inner loop, fetch_and_extract is at position p
AtFetch(p) ==
  /\ Stepwise
  /\ pc = "scrape"
  /\ si <= Len(get_enabled_sources)
  /\ fx.pc = p

\* what the run leaves alone while fetch_and_extract is in progress
fetchFrame ==
  UNCHANGED << pc, run, today, si, ui, results, calls, outcomes, eph, s3, store,
               stored, mode, req, out, catalog, writers >>

\* an external call either returns (ok) or raises, which counts as a failure
Outcome(ok) ==
  /\ ok \/ faults < FaultLimit
  /\ faults' = IF ok THEN faults ELSE faults + 1

\* karmona_browser_session, lines 112-141: fetch_and_extract is entered for
\* the next target and the remote browser is created
CreateBrowser ==
  /\ AtFetch("idle")
  /\ LET k == Len(calls) + 1
     IN  \E ok \in BOOLEAN :
           /\ Outcome(ok)
           /\ log' = Append(log, Event(k, "create_browser", ok))
           /\ IF ok
              THEN /\ remote' = [remote EXCEPT !.browsers = @ \cup {k}]
                   /\ fx' = [NoFetch EXCEPT !.pc = "start_browser_session",
                                            !.k = k, !.browser_id = k]
              ELSE /\ remote' = remote
                   /\ fx' = [NoFetch EXCEPT !.pc = "stop_browser_session",
                                            !.k = k, !.exc = "create_browser"]
  /\ fetchFrame

\* karmona_browser_session without its finally block: a failure to start the
\* session leaves the context manager at once
StartBrowserSession_no_finally ==
  /\ AtFetch("start_browser_session")
  /\ \E ok \in BOOLEAN :
       /\ Outcome(ok)
       /\ log' = Append(log, Event(fx.k, "start_browser_session", ok))
       /\ IF ok
          THEN /\ remote' = [remote EXCEPT !.sessions = @ \cup {fx.k}]
               /\ fx' = [fx EXCEPT !.pc = "generate_ws_headers", !.session_id = fx.k]
          ELSE /\ remote' = remote
               /\ fx' = [fx EXCEPT !.pc = "return", !.exc = "start_browser_session"]
  /\ fetchFrame

\* karmona_browser_session, lines 143-151: the browser session is started
StartBrowserSession ==
  /\ AtFetch("start_browser_session")
  /\ \E ok \in BOOLEAN :
       /\ Outcome(ok)
       /\ log' = Append(log, Event(fx.k, "start_browser_session", ok))
       /\ IF ok
          THEN /\ remote' = [remote EXCEPT !.sessions = @ \cup {fx.k}]
               /\ fx' = [fx EXCEPT !.pc = "generate_ws_headers", !.session_id = fx.k]
          ELSE /\ remote' = remote
               /\ fx' = [fx EXCEPT !.pc = "stop_browser_session",
                                   !.exc = "start_browser_session"]
  /\ fetchFrame

\* fetch_and_extract, line 84 (generate_ws_headers, lines 72-92): the
\* websocket endpoint of the session is asked for; the call raises, or the
\* answer holds no endpoint
GenerateWsHeaders ==
  /\ AtFetch("generate_ws_headers")
  /\ \E ok \in BOOLEAN :
       /\ Outcome(ok)
       /\ log' = Append(log, Event(fx.k, "get_browser_session", ok))
       /\ fx' = IF ok
                THEN [fx EXCEPT !.pc = "connect_over_cdp"]
                ELSE [fx EXCEPT !.pc = "stop_browser_session", !.exc = "ws_endpoint"]
  /\ UNCHANGED remote
  /\ fetchFrame

\* fetch_and_extract, lines 87-95: Playwright connects to the remote browser
\* and gets a page; res is "ok", "connect_error" (connect_over_cdp raises,
\* before the inner try) or "page_error" (inside the inner try, page unbound)
ConnectOverCdp ==
  /\ AtFetch("connect_over_cdp")
  /\ \E res \in {"ok", "connect_error", "page_error"} :
       /\ Outcome(res = "ok")
       /\ log' = Append(log, Event(fx.k, "connect_over_cdp", res # "connect_error"))
       /\ fx' = CASE res = "ok" -> [fx EXCEPT !.pc = "goto", !.page = TRUE]
                  [] res = "connect_error" ->
                       [fx EXCEPT !.pc = "stop_browser_session", !.exc = "connect"]
                  [] OTHER -> [fx EXCEPT !.pc = "close", !.exc = "new_page"]
  /\ UNCHANGED remote
  /\ fetchFrame

\* a navigation that is made again after it failed
Goto_retry ==
  /\ AtFetch("goto")
  /\ \E ok \in BOOLEAN :
       /\ Outcome(ok)
       /\ log' = Append(log, Event(fx.k, "goto", ok))
       /\ fx' = IF ok THEN [fx EXCEPT !.pc = "invoke"] ELSE fx
  /\ UNCHANGED remote
  /\ fetchFrame

\* a navigation without a timeout: a page that does not load is waited for
\* for ever
Goto_no_timeout ==
  /\ AtFetch("goto")
  /\ \E ok \in BOOLEAN :
       /\ Outcome(ok)
       /\ log' = Append(log, Event(fx.k, "goto", ok))
       /\ fx' = IF ok
                THEN [fx EXCEPT !.pc = "invoke"]
                ELSE [fx EXCEPT !.pc = "waiting"]
  /\ UNCHANGED remote
  /\ fetchFrame

\* fetch_and_extract, lines 97-111: the navigation (timeout 40 s), the wait
\* and the reading of the page
Goto ==
  /\ AtFetch("goto")
  /\ \E ok \in BOOLEAN :
       /\ Outcome(ok)
       /\ log' = Append(log, Event(fx.k, "goto", ok))
       /\ fx' = IF ok
                THEN [fx EXCEPT !.pc = "invoke"]
                ELSE [fx EXCEPT !.pc = "close", !.exc = "navigation"]
  /\ UNCHANGED remote
  /\ fetchFrame

\* fetch_and_extract, lines 113-124: the language model is invoked; res is
\* "text", "empty" (the reply is "") or "error" (the call raises)
Invoke ==
  /\ AtFetch("invoke")
  /\ \E res \in {"text", "empty", "error"} :
       /\ Outcome(res = "text")
       /\ log' = Append(log, Event(fx.k, "invoke", res # "error"))
       /\ fx' = IF res = "error"
                THEN [fx EXCEPT !.pc = "close", !.exc = "llm"]
                ELSE [fx EXCEPT !.pc = "close", !.data = res]
  /\ UNCHANGED remote
  /\ fetchFrame

\* fetch_and_extract, lines 133-136: the inner finally; with page unbound
\* page.is_closed() raises and browser.close() is not reached; with a page,
\* page.close() or browser.close() may raise, and the exception takes the
\* place of the value about to be returned
Close ==
  /\ AtFetch("close")
  /\ IF fx.page
     THEN \E ok \in BOOLEAN :
            /\ Outcome(ok)
            /\ log' = Append(log, Event(fx.k, "close", ok))
            /\ fx' = [fx EXCEPT !.pc = "stop_browser_session",
                                !.exc = IF ok THEN @ ELSE "close"]
     ELSE /\ log' = Append(log, Event(fx.k, "close", FALSE))
          /\ fx' = [fx EXCEPT !.pc = "stop_browser_session", !.exc = "unbound_page"]
          /\ UNCHANGED faults
  /\ UNCHANGED remote
  /\ fetchFrame

\* a finally block that leaves the session as it is
StopBrowserSession_never ==
  /\ AtFetch("stop_browser_session")
  /\ fx' = [fx EXCEPT !.pc = "delete_browser"]
  /\ UNCHANGED << remote, log, faults >>
  /\ fetchFrame

\* karmona_browser_session, lines 172-180: the finally block stops the
\* session if one was started; an exception of the call is swallowed
StopBrowserSession ==
  /\ AtFetch("stop_browser_session")
  /\ IF fx.session_id # 0
     THEN \E ok \in BOOLEAN :
            /\ Outcome(ok)
            /\ log' = Append(log, Event(fx.k, "stop_browser_session", ok))
            /\ remote' = IF ok
                         THEN [remote EXCEPT !.sessions = @ \ {fx.session_id}]
                         ELSE remote
            /\ fx' = [fx EXCEPT !.pc = "delete_browser",
                                !.cleanup = IF ok THEN @ ELSE @ \cup {"stop"}]
     ELSE /\ fx' = [fx EXCEPT !.pc = "delete_browser"]
          /\ UNCHANGED << remote, log, faults >>
  /\ fetchFrame

\* karmona_browser_session, lines 182-187: the finally block deletes the
\* browser if one was created; an exception of the call is swallowed
DeleteBrowser ==
  /\ AtFetch("delete_browser")
  /\ IF fx.browser_id # 0
     THEN \E ok \in BOOLEAN :
            /\ Outcome(ok)
            /\ log' = Append(log, Event(fx.k, "delete_browser", ok))
            /\ remote' = IF ok
                         THEN [remote EXCEPT !.browsers = @ \ {fx.browser_id}]
                         ELSE remote
            /\ fx' = [fx EXCEPT !.pc = "return",
                                !.cleanup = IF ok THEN @ ELSE @ \cup {"delete"}]
     ELSE /\ fx' = [fx EXCEPT !.pc = "return"]
          /\ UNCHANGED << remote, log, faults >>
  /\ fetchFrame

\* a return that hands the reply over whenever the model gave one, whatever
\* was raised after it
Return_reply_despite_exception ==
  /\ AtFetch("return")
  /\ fx' = [fx EXCEPT !.pc = "returned",
                      !.ext = IF fx.data = "empty" THEN "empty"
                              ELSE IF fx.data = "text" THEN "ok" ELSE "timeout"]
  /\ log' = Append(log, Event(fx.k, "return", fx.exc = "none"))
  /\ UNCHANGED << remote, faults >>
  /\ fetchFrame

\* fetch_and_extract, lines 126-131 and 138-145: the dictionary is returned,
\* with success False when an exception was raised on the way
Return ==
  /\ AtFetch("return")
  /\ fx' = [fx EXCEPT !.pc = "returned",
                      !.ext = IF fx.exc # "none" THEN "timeout"
                              ELSE IF fx.data = "empty" THEN "empty" ELSE "ok"]
  /\ log' = Append(log, Event(fx.k, "return", fx.exc = "none"))
  /\ UNCHANGED << remote, faults >>
  /\ fetchFrame

InitSteps ==
  /\ mode = "steps"
  /\ pc = "idle" /\ run = 0 /\ today = 1 /\ si = 1 /\ ui = 1
  /\ results = [ date |-> isoformat(1), scraped |-> << >>, failed |-> << >>,
                 uploaded |-> 0, total |-> 0 ]
  /\ calls = << >> /\ outcomes = << >> /\ eph = "none"
  /\ s3 = << >> /\ store = {} /\ stored = {} /\ faults = 0
  /\ req = NoRequest /\ out = << >>
  /\ fx = NoFetch /\ remote = NoRemote /\ log = << >>
  /\ catalog = SCRAPING_SOURCES /\ writers = << >>

NextSteps ==
  \/ StartRun \/ EphemerisStep
  \/ CreateBrowser \/ StartBrowserSession \/ GenerateWsHeaders \/ ConnectOverCdp
  \/ Goto \/ Invoke \/ Close \/ StopBrowserSession \/ DeleteBrowser \/ Return
  \/ ScrapeTarget \/ FinishRun

SpecSteps == InitSteps /\ [][NextSteps]_vars

InitStepsFair ==
  /\ mode = "live"
  /\ pc = "idle" /\ run = 0 /\ today = 1 /\ si = 1 /\ ui = 1
  /\ results = [ date |-> isoformat(1), scraped |-> << >>, failed |-> << >>,
                 uploaded |-> 0, total |-> 0 ]
  /\ calls = << >> /\ outcomes = << >> /\ eph = "none"
  /\ s3 = << >> /\ store = {} /\ stored = {} /\ faults = 0
  /\ req = NoRequest /\ out = << >>
  /\ fx = NoFetch /\ remote = NoRemote /\ log = << >>
  /\ catalog = SCRAPING_SOURCES /\ writers = << >>

NextStepsFair == NextSteps

\* every external call returns or raises in the end, and the job goes on
SpecStepsFair == InitStepsFair /\ [][NextStepsFair]_vars /\ WF_vars(NextStepsFair)

\* ============================================================== claims
Count(seq, x) == Cardinality({ i \in DOMAIN seq : seq[i] = x })

\* the expanded targets of the enabled sources, in catalog order
RECURSIVE Expand(_, _)
Expand(sources, n) ==
  IF n = 0 THEN << >>
  ELSE Expand(sources, n - 1) \o
       [k \in DOMAIN get_urls(sources[n]) |->
          [ name |-> sources[n].name,
            url |-> get_urls(sources[n])[k].url,
            context |-> get_urls(sources[n])[k].context ]]

AllTargets ==
  LET enabled == SelectSeq(SCRAPING_SOURCES, LAMBDA s : s.enabled)
  IN  Expand(enabled, Len(enabled))

\* every target of every enabled source was attempted, once and in order
AllAttempted ==
  /\ Len(calls) = Len(AllTargets)
  /\ Len(outcomes) = Len(AllTargets)
  /\ \A k \in DOMAIN AllTargets :
       /\ calls[k].url = AllTargets[k].url
       /\ outcomes[k].ident = ident(AllTargets[k].name, AllTargets[k].context)

\* C1: whatever targets fail in extraction (timeout, exception, no document),
\* run_daily_scrape returns its summary after attempting every expanded target
\* of every enabled source, and each failed target's identifier
\* '<source>_<context>' is in the summary's 'failed' list.
C1_ExtractionFailureIsRecordedAndRunContinues ==
  /\ \A k \in DOMAIN outcomes :
       outcomes[k].ext # "ok" =>
         /\ outcomes[k].ident \in Range(results.failed)
         /\ outcomes[k].ident \notin Range(results.scraped)
  /\ pc = "scrape" => Len(calls) = Len(outcomes) /\ Len(calls) <= Len(AllTargets)
  /\ pc = "done" => AllAttempted

C1_Witness ==
  /\ pc = "done"
  /\ AllAttempted
  /\ \E k \in DOMAIN outcomes :
       /\ outcomes[k].ext = "timeout"
       /\ outcomes[k].ident \in Range(results.failed)
       /\ \E j \in DOMAIN outcomes : j > k /\ outcomes[j].ident \in Range(results.scraped)

\* C2 (as claimed): a target whose extraction succeeds but whose embedding or
\* table write fails inside store_document is listed in 'failed', is not in
\* 'scraped', and 'uploaded' counts only the targets (and the ephemeris step)
\* whose every step succeeded.
C2_StoreFailureIsRecordedAsFailed ==
  /\ \A k \in DOMAIN outcomes :
       outcomes[k].svc \in {"embed_error", "upsert_error"} =>
         /\ outcomes[k].ident \in Range(results.failed)
         /\ outcomes[k].ident \notin Range(results.scraped)
  /\ results.uploaded =
       Cardinality({ k \in DOMAIN outcomes : outcomes[k].svc = "ok" })
       + (IF eph = "ok" THEN 1 ELSE 0)

\* C3 (as claimed): once the ephemeris step is recorded as succeeded, the
\* embedding store holds a row with id 'ephemeris-<date>' whose content is the
\* ephemeris text summary.
C3_EphemerisSummaryIsInEmbeddingStore ==
  EPHEMERIS \in Range(results.scraped) =>
    \E row \in store :
      /\ row.id = << "ephemeris", "-", isoformat(today) >>
      /\ row.content = format_for_llm(calculate_positions(TRUE, today, calc_ut(today)))

\* C4: when the astronomical backend is unavailable, or the ephemeris step
\* raises, or its upload fails, the summary lists
\* 'ephemeris_planetary_positions' exactly once under 'failed' and not under
\* 'scraped', and the run still attempts every scraping target.
C4_EphemerisFailureIsOneFailedItem ==
  (pc \in {"scrape", "done"} /\ eph \in {"unavailable", "raise", "put_error"}) =>
    /\ Count(results.failed, EPHEMERIS) = 1
    /\ EPHEMERIS \notin Range(results.scraped)
    /\ pc = "done" => AllAttempted

C4_Witness ==
  /\ pc = "done"
  /\ eph = "unavailable"
  /\ Count(results.failed, EPHEMERIS) = 1
  /\ Len(calls) = Len(AllTargets)
  /\ Len(results.scraped) = Len(AllTargets)

\* C6 (as claimed): the id of a stored document is source + "_" + context +
\* "-" + date for a sign-specific target and source + "-" + date for a
\* general target.
C6_DocIdUsesUnderscoreBeforeContext ==
  \A row \in store :
    row.id = IF row.metadata.context # "general"
             THEN << row.metadata.source, "_", row.metadata.context, "-",
                     row.metadata.date >>
             ELSE << row.metadata.source, "-", row.metadata.date >>

\* C6 (amended): the id of a stored document, in the embedding store and in
\* the backup object alike, is source + "-" + context + "-" + date for a
\* sign-specific target and source + "-" + date for a general target.
C6_DocIdIsSourceContextDate ==
  /\ \A row \in store :
       row.id = IF row.metadata.context # "general"
                THEN << row.metadata.source, "-", row.metadata.context, "-",
                        row.metadata.date >>
                ELSE << row.metadata.source, "-", row.metadata.date >>
  /\ \A w \in stored :
       /\ w.id = IF w.context # "general"
                 THEN << w.source, "-", w.context, "-", isoformat(w.day) >>
                 ELSE << w.source, "-", isoformat(w.day) >>
       /\ \E key \in DOMAIN s3 : s3[key].id = w.id

C6_Witness ==
  /\ \E row \in store : row.metadata.context = "Aries"
                        /\ row.id = << "astrostyle", "-", "Aries", "-", isoformat(today) >>
  /\ \E row \in store : row.metadata.context = "general"
                        /\ row.id = << "astro_seek", "-", isoformat(today) >>

\* the successful store_document calls made for the target and date of w
SameTargetAndDay(w) ==
  { v \in stored : v.source = w.source /\ v.context = w.context /\ v.day = w.day }

\* the rows the embedding store holds for the target and date of w
RowsFor(w) ==
  { row \in store : /\ row.metadata.source = w.source
                    /\ row.metadata.context = w.context
                    /\ row.metadata.date = isoformat(w.day) }

\* C7: over any sequence of runs, a target stored by one or more runs of the
\* same date has exactly one row in the embedding store, holding the content
\* of the latest of those runs; runs of different dates write disjoint ids, so
\* a row written for one date is never overwritten by a run of another date.
C7_OneRowPerTargetAndDayLatestWins ==
  /\ \A w \in stored :
       (\A u \in SameTargetAndDay(w) : u.run <= w.run) =>
         /\ Cardinality(RowsFor(w)) = 1
         /\ \A row \in RowsFor(w) : row.content = w.content /\ row.id = w.id
  /\ \A v, w \in stored : v.day # w.day => v.id # w.id
  /\ \A r1, r2 \in store : r1.id = r2.id => r1 = r2

C7_Witness ==
  \E v, w \in stored :
    /\ v.source = w.source /\ v.context = w.context /\ v.day = w.day
    /\ v.run < w.run /\ v.content # w.content
    /\ \E row \in store : row.id = w.id /\ row.content = w.content

\* text is template with every {sign} field replaced by value
Substituted(template, value, text) ==
  /\ Len(text) = Len(template)
  /\ \A p \in DOMAIN template :
       text[p] = IF template[p] = SIGN_FIELD THEN value ELSE template[p]
  /\ \A p \in DOMAIN text : text[p] # SIGN_FIELD
  /\ \E p \in DOMAIN text : text[p] = value

\* the number of targets the claim gives a source
Size(source) == IF source.source_type = "sign_specific" THEN 12 ELSE 1

RECURSIVE Offset(_)
Offset(i) == IF i = 1 THEN 0 ELSE Offset(i - 1) + Size(get_enabled_sources[i - 1])

\* C8: a sign-specific source is expanded to exactly 12 targets, one per zodiac
\* sign in the fixed order, the sign's name substituted into the URL (lower
\* case) and into the prompt handed to fetch_and_extract (capitalised, as the
\* target's context); a single-page source is expanded to exactly 1 target
\* with context "general" whose prompt is handed over verbatim.
C8_ExpansionPerSign ==
  pc = "done" =>
    /\ Len(ZODIAC_SIGNS) = 12
    /\ Len(calls) = Offset(Len(get_enabled_sources) + 1)
    /\ \A i \in DOMAIN get_enabled_sources :
         LET source == get_enabled_sources[i]
         IN  \A k \in 1 .. Size(source) :
               LET c == calls[Offset(i) + k]
                   o == outcomes[Offset(i) + k]
               IN  IF source.source_type = "sign_specific"
                   THEN /\ Substituted(source.url_pattern, ZODIAC_SIGNS[k], c.url)
                        /\ Substituted(source.extraction_prompt,
                                       capitalize(ZODIAC_SIGNS[k]), c.extraction_prompt)
                        /\ o.ident = << source.name, "_", capitalize(ZODIAC_SIGNS[k]) >>
                        /\ capitalize(ZODIAC_SIGNS[k]) # ZODIAC_SIGNS[k]
                   ELSE /\ c.url = source.url
                        /\ c.extraction_prompt = source.extraction_prompt
                        /\ o.ident = << source.name, "_", "general" >>

C8_Witness ==
  /\ pc = "done"
  /\ Len(calls) = 13
  /\ calls[12].url = << "https://astrostyle.com/horoscopes/daily/", "pisces", "/" >>
  /\ calls[12].extraction_prompt[2] = "Pisces"
  /\ calls[13].url = << "https://www.astro-seek.com/" >>
  /\ outcomes[13].ident = << "astro_seek", "_", "general" >>

\* the items a run attempts: the ephemeris step and every expanded target
Attempted ==
  << EPHEMERIS >> \o
  [k \in DOMAIN AllTargets |-> ident(AllTargets[k].name, AllTargets[k].context)]

\* C15: when run_daily_scrape returns, every attempted item (the ephemeris
\* step and each expanded target of each enabled source) is in exactly one of
\* the lists 'scraped' and 'failed', once; the lists are disjoint and hold
\* nothing else; and 'total' equals len(scraped) + len(failed).
C15_SummaryPartitionsTheAttemptedItems ==
  pc = "done" =>
    /\ \A p \in DOMAIN Attempted :
         Count(results.scraped, Attempted[p]) + Count(results.failed, Attempted[p]) = 1
    /\ \A p, q \in DOMAIN Attempted : p # q => Attempted[p] # Attempted[q]
    /\ Range(results.scraped) \cap Range(results.failed) = {}
    /\ Range(results.scraped) \cup Range(results.failed) = Range(Attempted)
    /\ results.total = Len(results.scraped) + Len(results.failed)
    /\ results.total = Len(Attempted)

C15_Witness ==
  /\ pc = "done"
  /\ Len(results.scraped) = 12
  /\ Len(results.failed) = 2
  /\ results.total = 14
  /\ EPHEMERIS \in Range(results.failed)
  /\ \E k \in DOMAIN outcomes : outcomes[k].put = "error"

\* C25: a target whose extraction completed but whose language model reply
\* is the empty text is recorded as failed, and the run writes nothing for it:
\* the backup bucket holds no object under its key and the embedding store no
\* row under its id.
C25_EmptyReplyIsFailedAndNothingWritten ==
  \A k \in DOMAIN outcomes :
    outcomes[k].ext = "empty" =>
      /\ outcomes[k].ident \in Range(results.failed)
      /\ outcomes[k].ident \notin Range(results.scraped)
      /\ outcomes[k].put = "skipped" /\ outcomes[k].svc = "skipped"
      /\ filename(AllTargets[k].name, AllTargets[k].context, today) \notin DOMAIN s3
      /\ \A row \in store :
           row.id # doc_id(AllTargets[k].name, AllTargets[k].context, today)
      /\ \A w \in stored : w.source = AllTargets[k].name => w.context # AllTargets[k].context

C25_Witness ==
  /\ pc = "done"
  /\ \E k \in DOMAIN outcomes :
       /\ outcomes[k].ext = "empty"
       /\ AllTargets[k].context = "Leo"
       /\ outcomes[k].ident \in Range(results.failed)
       /\ filename(AllTargets[k].name, "Leo", today) \notin DOMAIN s3
       /\ filename(AllTargets[k].name, "Virgo", today) \in DOMAIN s3
  /\ Cardinality(store) = Len(AllTargets) - 1

\* the targets of the sources of SCRAPING_SOURCES whose enabled flag is false
DisabledTargets ==
  UNION { { [ name |-> SCRAPING_SOURCES[i].name,
              url |-> get_urls(SCRAPING_SOURCES[i])[u].url,
              context |-> get_urls(SCRAPING_SOURCES[i])[u].context ] :
            u \in DOMAIN get_urls(SCRAPING_SOURCES[i]) } :
          i \in { j \in DOMAIN SCRAPING_SOURCES : ~SCRAPING_SOURCES[j].enabled } }

\* C26: no target of a source whose enabled flag is false is navigated to,
\* extracted or stored during an ingestion run and none is in the summary,
\* the total counts the targets of the enabled sources and the ephemeris step
\* alone, and the catalog is at every step the list the process started with.
C26_DisabledSourcesAreLeftOut ==
  /\ \A t \in DisabledTargets :
       /\ \A k \in DOMAIN calls : calls[k].url # t.url
       /\ \A day \in 1 .. (MaxRuns + 1) :
            /\ filename(t.name, t.context, day) \notin DOMAIN s3
            /\ \A row \in store : row.id # doc_id(t.name, t.context, day)
       /\ \A w \in stored : w.source # t.name
       /\ ident(t.name, t.context) \notin Range(results.scraped) \cup Range(results.failed)
  /\ pc # "idle" =>
       results.total =
         1 + Cardinality({ << i, u >> \in (DOMAIN SCRAPING_SOURCES) \X (1 .. 12) :
                             /\ SCRAPING_SOURCES[i].enabled
                             /\ u \in DOMAIN get_urls(SCRAPING_SOURCES[i]) })
  /\ catalog = SCRAPING_SOURCES /\ writers = << >>

C26_Witness ==
  /\ pc = "done"
  /\ \E t \in DisabledTargets : t.name = "cafeastrology_cosmic_overview"
  /\ Len(calls) = 13
  /\ results.total = 14
  /\ Len(results.scraped) = 14
  /\ Cardinality(store) = 13

\* the items the stores hold after the run: the ephemeris step if its
\* object is in the backup bucket, and every target whose object is in the
\* backup bucket and whose row is in the embedding store
ItemsWritten ==
  (IF << "ephemeris/", isoformat(today), "/planetary_positions.json" >> \in DOMAIN s3
   THEN { EPHEMERIS } ELSE {})
  \cup { ident(AllTargets[k].name, AllTargets[k].context) :
           k \in { j \in DOMAIN AllTargets :
                     /\ filename(AllTargets[j].name, AllTargets[j].context, today)
                          \in DOMAIN s3
                     /\ \E row \in store :
                          row.id = doc_id(AllTargets[j].name, AllTargets[j].context,
                                          today) } }

\* C29 (as claimed): at every point of an ingestion run the counter
\* 'uploaded' of the summary equals the number of identifiers in 'scraped',
\* and when the run returns it equals the number of items written to the
\* stores in this run.
C29_UploadedIsScrapedAndWritten ==
  /\ results.uploaded = Len(results.scraped)
  /\ pc = "done" => results.uploaded = Cardinality(ItemsWritten)

\* ======================================= store_document called directly
\* ids, contents and metadata the direct calls are made with
SampleIds ==
  { << "astro_seek", "-", isoformat(1) >>, << "tinybuddha", "-", isoformat(1) >> }

SampleContents == { << "Moon", "in", "Leo" >>, << "Mars", "trine", "Venus" >> }

SampleMetadata ==
  { [ date |-> isoformat(1), source |-> "astro_seek", url |-> << "https://www.astro-seek.com/" >>,
      tags |-> << << "source-", "astro_seek" >> >>, scraped_at |-> << "utcnow", t >>,
      context |-> "general" ] : t \in {1, 2} }

\* one call of SupabaseVectorService.store_document
StoreDocument ==
  /\ mode = "store"
  /\ \E document_id \in SampleIds, content \in SampleContents,
        metadata \in SampleMetadata, svc \in {"ok", "embed_error", "upsert_error"} :
       LET sd == store_document(store, document_id, content, metadata, svc)
       IN  /\ store' = sd.rows
           /\ req' = [ op |-> "store_document", id |-> document_id,
                       content |-> content, metadata |-> metadata, svc |-> svc,
                       before |-> store ]
           /\ out' = << sd.ret >>
  /\ UNCHANGED << pc, run, today, si, ui, results, calls, outcomes, eph, s3,
                  stored, faults, mode >>
  /\ UNCHANGED fetchVars
  /\ UNCHANGED << catalog, writers >>

InitStore ==
  /\ mode = "store"
  /\ pc = "idle" /\ run = 0 /\ today = 1 /\ si = 1 /\ ui = 1
  /\ results = [ date |-> isoformat(1), scraped |-> << >>, failed |-> << >>,
                 uploaded |-> 0, total |-> 0 ]
  /\ calls = << >> /\ outcomes = << >> /\ eph = "none"
  /\ s3 = << >> /\ store = {} /\ stored = {} /\ faults = 0
  /\ req = NoRequest /\ out = << >>
  /\ fx = NoFetch /\ remote = NoRemote /\ log = << >>
  /\ catalog = SCRAPING_SOURCES /\ writers = << >>

NextStore == StoreDocument

SpecStore == InitStore /\ [][NextStore]_vars

\* C5: a successful store_document call leaves exactly one row under its id,
\* made of that call's content, metadata and vector alone, also when a row
\* with other content and metadata was under the id before; the rows under
\* other ids are unchanged.
C5_UpsertReplacesWholeRow ==
  (req.op = "store_document" /\ out = << TRUE >>) =>
    /\ { row \in store : row.id = req.id } =
         { [ id |-> req.id, content |-> req.content, metadata |-> req.metadata,
             embedding |-> _generate_embedding(req.content),
             created_at |-> req.metadata.scraped_at ] }
    /\ { row \in store : row.id # req.id } = { row \in req.before : row.id # req.id }

C5_Witness ==
  /\ req.op = "store_document" /\ out = << TRUE >>
  /\ \E old \in req.before :
       /\ old.id = req.id
       /\ old.content # req.content
       /\ old.metadata # req.metadata
  /\ \E row \in store : row.id = req.id /\ row.content = req.content
  /\ \E row \in store : row.id # req.id

\* ============================================================ retrieval
\* largest number of results the knowledge base answers with
MaxHits == 2

\* similarity scores are counted in tenths: 3 stands for 0.3
KB_SCORE_THRESHOLD == 3
MATCH_THRESHOLD == 3

\* scores a backend may report: below, at and above the threshold
Scores == {2, 3, 4}

HEADER == "ENRICHED ASTROLOGICAL CONTEXT (from real-time sources):"
FOOTER == "Use these insights to personalize the reflection."
SEP == "\n\n"

\* "\n\n".join(context_chunks), one element per chunk and per separator
RECURSIVE join(_)
join(chunks) ==
  IF Len(chunks) <= 1 THEN chunks
  ELSE << chunks[1], << SEP >> >> \o join(Tail(chunks))

\* the f-string both retrieve_context implementations return
enriched(context_chunks) ==
  << << HEADER >>, << SEP >> >> \o join(context_chunks) \o << << SEP >>, << FOOTER >> >>

\* f"Insight {i}: {content}"
insight(i, content) == << "Insight ", i, ": ", content >>

\* the value returned to the caller: the text, and whether an exception left
\* the function instead
Returned(text) == [ raised |-> FALSE, text |-> text ]

\* json.loads(raw_content) followed by doc.get('content', raw_content); a
\* text that is no JSON object is used as it is
JSON_CONTENT == "{\"content\": "

kb_clean_content(raw_content) ==
  IF Len(raw_content) = 3 /\ raw_content[1] = JSON_CONTENT /\ raw_content[3] = "}"
  THEN << raw_content[2] >>
  ELSE raw_content

\* result.get('score', 0)
get_score(result) == IF "score" \in DOMAIN result THEN result.score ELSE 0

\* the loop of KBRetrievalService.retrieve_context with the test score >= 0.3
RECURSIVE kb_context_chunks_at_least(_, _)
kb_context_chunks_at_least(retrieved_results, n) ==
  IF n = 0 THEN << >>
  ELSE kb_context_chunks_at_least(retrieved_results, n - 1) \o
       (IF get_score(retrieved_results[n]) >= KB_SCORE_THRESHOLD
        THEN << insight(n, kb_clean_content(retrieved_results[n].text)) >>
        ELSE << >>)

\* the loop of KBRetrievalService.retrieve_context over the first n results
RECURSIVE kb_context_chunks(_, _)
kb_context_chunks(retrieved_results, n) ==
  IF n = 0 THEN << >>
  ELSE kb_context_chunks(retrieved_results, n - 1) \o
       (IF get_score(retrieved_results[n]) > KB_SCORE_THRESHOLD
        THEN << insight(n, kb_clean_content(retrieved_results[n].text)) >>
        ELSE << >>)

\* an exception leaving a function: what the caller gets instead of a value
Raised(e) == [ raised |-> TRUE, text |-> << >>, error |-> e ]

\* the try block of KBRetrievalService.retrieve_context, given what
\* bedrock_agent_runtime.retrieve answers; err is where an exception is
\* raised: "none", "query_error" (_build_search_query raises),
\* "retrieve_error" (the retrieve call raises) or "malformed_result" (a
\* result without content text)
kb_retrieve_try(retrieved_results, err) ==
  IF err # "none" THEN Raised(err)
  ELSE IF retrieved_results = << >> THEN Returned(<< >>)
  ELSE LET context_chunks == kb_context_chunks(retrieved_results, Len(retrieved_results))
       IN  IF context_chunks = << >> THEN Returned(<< >>)
           ELSE Returned(enriched(context_chunks))

\* KBRetrievalService.retrieve_context without its two empty-result returns
kb_retrieve_context_no_empty_check(retrieved_results, err) ==
  IF err # "none" THEN Returned(<< >>)
  ELSE Returned(enriched(kb_context_chunks(retrieved_results, Len(retrieved_results))))

\* KBRetrievalService.retrieve_context without its except clause
kb_retrieve_context_no_except(retrieved_results, err) ==
  kb_retrieve_try(retrieved_results, err)

\* KBRetrievalService.retrieve_context: the try block, and the except clause
\* that returns "" for any exception raised in it
kb_retrieve_context(retrieved_results, err) ==
  LET body == kb_retrieve_try(retrieved_results, err)
  IN  IF body.raised THEN Returned(<< >>) ELSE body

\* str.replace of '\n', '\r' and '\t' by ' '
Blank(ch) == IF ch \in {"\n", "\r", "\t"} THEN " " ELSE ch

\* str.replace('  ', ' '): one left-to-right pass over non-overlapping pairs
RECURSIVE Collapse(_)
Collapse(text) ==
  IF Len(text) < 2 THEN text
  ELSE IF text[1] = " " /\ text[2] = " "
       THEN << " " >> \o Collapse(Tail(Tail(text)))
       ELSE << text[1] >> \o Collapse(Tail(text))

\* str.strip()
RECURSIVE Strip(_)
Strip(text) ==
  IF text = << >> THEN text
  ELSE IF text[1] = " " THEN Strip(Tail(text))
  ELSE IF text[Len(text)] = " " THEN Strip(SubSeq(text, 1, Len(text) - 1))
  ELSE text

\* the sanitising of SupabaseVectorService.retrieve_context
clean_content(content) == Strip(Collapse([i \in DOMAIN content |-> Blank(content[i])]))

\* the match_astrology_documents function of the database: the answers it may
\* give are the rows whose similarity is strictly greater than match_threshold,
\* by descending similarity, at most match_count of them
match_astrology_documents(rows, sim, match_threshold, match_count) ==
  LET qualified == { row \in rows : sim[row] > match_threshold }
      n == IF Cardinality(qualified) < match_count
           THEN Cardinality(qualified) ELSE match_count
  IN  { [i \in 1 .. n |-> [ id |-> f[i].id, content |-> f[i].content,
                            metadata |-> f[i].metadata, similarity |-> sim[f[i]] ]] :
        f \in { g \in [1 .. n -> qualified] :
                  /\ \A i, j \in 1 .. n : i < j => g[i] # g[j] /\ sim[g[i]] >= sim[g[j]]
                  /\ \A row \in qualified :
                       (\A i \in 1 .. n : g[i] # row) =>
                         \A i \in 1 .. n : sim[g[i]] >= sim[row] } }

\* the try block of SupabaseVectorService.retrieve_context, given what the
\* rpc answers; err is where an exception is raised: "none", "query_error"
\* (_build_search_query raises), "embed_error" (invoke_model raises),
\* "rpc_error" (execute raises) or "malformed_result" (a row without content)
supabase_retrieve_try(results_, err) ==
  IF err # "none" THEN Raised(err)
  ELSE IF results_ = << >> THEN Returned(<< >>)
  ELSE LET context_chunks ==
             [i \in DOMAIN results_ |-> insight(i, clean_content(results_[i].content))]
       IN  IF context_chunks = << >> THEN Returned(<< >>)
           ELSE Returned(enriched(context_chunks))

\* SupabaseVectorService.retrieve_context: the try block, and the except
\* clause that returns "" for any exception raised in it
supabase_retrieve_context(results_, err) ==
  LET body == supabase_retrieve_try(results_, err)
  IN  IF body.raised THEN Returned(<< >>) ELSE body

\* generate_reflection of the reflection router, lines 151-177: the retrieval
\* wrapped in its own try, and the generation step that follows with the
\* context obtained
generate_reflection(retrieval) ==
  LET enriched_context == IF retrieval.raised THEN << >> ELSE retrieval.text
  IN  [ raised |-> FALSE, text |-> enriched_context,
        generation |-> [ enriched_context |-> enriched_context ] ]

\* texts the knowledge base may hold: a JSON document and a plain text
KBTexts == { << JSON_CONTENT, "Moon in Leo", "}" >>, << "Mars trine Venus" >> }

KBResults ==
  { [ text |-> t, score |-> sc ] : t \in KBTexts, sc \in Scores }
  \cup { [ text |-> t ] : t \in KBTexts }

BoundedSeq(S, n) == UNION { [1 .. k -> S] : k \in 0 .. n }

\* rows the embedding store may hold when a retrieval is made
SampleRows ==
  { store_payload(<< "astro_seek", "-", isoformat(1) >>,
                  << "Moon", "\n", " ", "in", "Leo", " " >>,
                  CHOOSE m \in SampleMetadata : m.scraped_at = << "utcnow", 1 >>),
    store_payload(<< "tinybuddha", "-", isoformat(1) >>,
                  << "Breathe", "\t", "slowly" >>,
                  CHOOSE m \in SampleMetadata : m.scraped_at = << "utcnow", 1 >>),
    store_payload(<< "moongiant_phase", "-", isoformat(1) >>,
                  << "Full", " ", "Moon" >>,
                  CHOOSE m \in SampleMetadata : m.scraped_at = << "utcnow", 2 >>) }

\* one call of KBRetrievalService.retrieve_context
KBRetrieve ==
  /\ mode = "retrieve"
  /\ req = NoRequest
  /\ \E response \in BoundedSeq(KBResults, MaxHits),
        err \in {"none", "query_error", "retrieve_error", "malformed_result"} :
       /\ err \in {"query_error", "retrieve_error"} => response = << >>
       /\ err = "malformed_result" => response # << >>
       /\ out' = kb_retrieve_context(response, err)
       /\ req' = [ op |-> "kb_retrieve", response |-> response, err |-> err ]
  /\ UNCHANGED << pc, run, today, si, ui, results, calls, outcomes, eph, s3,
                  store, stored, faults, mode >>
  /\ UNCHANGED fetchVars
  /\ UNCHANGED << catalog, writers >>

\* a retrieval that keeps its query as a row of the table
SupabaseRetrieve_keeping_query ==
  /\ mode = "retrieve"
  /\ req = NoRequest
  /\ \E max_results \in {2, 5}, sim \in [store -> Scores],
        err \in {"none", "query_error", "embed_error", "rpc_error",
                 "malformed_result"} :
     \E response \in (IF err \in {"none", "malformed_result"}
                      THEN match_astrology_documents(store, sim, MATCH_THRESHOLD,
                                                     max_results)
                      ELSE { << >> }) :
       /\ err = "malformed_result" => response # << >>
       /\ out' = supabase_retrieve_context(response, err)
       /\ req' = [ op |-> "supabase_retrieve", sim |-> sim, response |-> response,
                   err |-> err, max_results |-> max_results ]
  /\ store' = upsert(store, store_payload(<< "query" >>, << "query" >>,
                                          CHOOSE m \in SampleMetadata : TRUE))
  /\ UNCHANGED << pc, run, today, si, ui, results, calls, outcomes, eph, s3,
                  stored, faults, mode >>
  /\ UNCHANGED fetchVars
  /\ UNCHANGED << catalog, writers >>

\* one call of SupabaseVectorService.retrieve_context
SupabaseRetrieve ==
  /\ mode = "retrieve"
  /\ req = NoRequest
  /\ \E max_results \in {2, 5}, sim \in [store -> Scores],
        err \in {"none", "query_error", "embed_error", "rpc_error",
                 "malformed_result"} :
     \E response \in (IF err \in {"none", "malformed_result"}
                      THEN match_astrology_documents(store, sim, MATCH_THRESHOLD,
                                                     max_results)
                      ELSE { << >> }) :
       /\ err = "malformed_result" => response # << >>
       /\ out' = supabase_retrieve_context(response, err)
       /\ req' = [ op |-> "supabase_retrieve", sim |-> sim, response |-> response,
                   err |-> err, max_results |-> max_results ]
  /\ UNCHANGED << pc, run, today, si, ui, results, calls, outcomes, eph, s3,
                  store, stored, faults, mode >>
  /\ UNCHANGED fetchVars
  /\ UNCHANGED << catalog, writers >>

\* one request to the reflection router: the retrieval, then the generation
GenerateReflection ==
  /\ mode = "retrieve"
  /\ req = NoRequest
  /\ \E response \in BoundedSeq(KBResults, MaxHits),
        err \in {"none", "query_error", "retrieve_error", "malformed_result"} :
       /\ err \in {"query_error", "retrieve_error"} => response = << >>
       /\ err = "malformed_result" => response # << >>
       /\ out' = generate_reflection(kb_retrieve_context(response, err))
       /\ req' = [ op |-> "generate_reflection", response |-> response, err |-> err ]
  /\ UNCHANGED << pc, run, today, si, ui, results, calls, outcomes, eph, s3,
                  store, stored, faults, mode >>
  /\ UNCHANGED fetchVars
  /\ UNCHANGED << catalog, writers >>

\* every request is served on its own, from the rows the store holds then
InitRetrieve ==
  /\ mode = "retrieve"
  /\ pc = "idle" /\ run = 0 /\ today = 1 /\ si = 1 /\ ui = 1
  /\ results = [ date |-> isoformat(1), scraped |-> << >>, failed |-> << >>,
                 uploaded |-> 0, total |-> 0 ]
  /\ calls = << >> /\ outcomes = << >> /\ eph = "none"
  /\ s3 = << >> /\ store \in SUBSET SampleRows /\ stored = {} /\ faults = 0
  /\ req = NoRequest /\ out = << >>
  /\ fx = NoFetch /\ remote = NoRemote /\ log = << >>
  /\ catalog = SCRAPING_SOURCES /\ writers = << >>

NextRetrieve == KBRetrieve \/ SupabaseRetrieve \/ GenerateReflection

SpecRetrieve == InitRetrieve /\ [][NextRetrieve]_vars

\* the "Insight N: ..." entries of a returned text
Insights(text) == { text[p] : p \in { q \in DOMAIN text : Len(text[q]) = 4 } }

\* C9: a retrieved record whose similarity equals the threshold (0.3) is not
\* in the text retrieve_context returns; every "Insight" entry of the text
\* comes from a record whose similarity is strictly greater than the threshold.
C9_ThresholdIsExclusive ==
  /\ req.op = "kb_retrieve" =>
       /\ \A i \in DOMAIN req.response :
            get_score(req.response[i]) <= 3 =>
              \A c \in Insights(out.text) : c[2] # i
       /\ \A c \in Insights(out.text) :
            /\ c[2] \in DOMAIN req.response
            /\ get_score(req.response[c[2]]) > 3
            /\ c[4] = kb_clean_content(req.response[c[2]].text)
  /\ req.op = "supabase_retrieve" =>
       /\ \A row \in store :
            req.sim[row] <= 3 =>
              \A c \in Insights(out.text) : c[4] # clean_content(row.content)
       /\ \A c \in Insights(out.text) :
            \E row \in store : req.sim[row] > 3 /\ c[4] = clean_content(row.content)

C9_Witness ==
  /\ req.op = "kb_retrieve" /\ req.err = "none"
  /\ Len(req.response) = 2
  /\ get_score(req.response[1]) = 3
  /\ get_score(req.response[2]) = 4
  /\ Insights(out.text) = { insight(2, kb_clean_content(req.response[2].text)) }

\* C10: retrieve_context raises nothing; when the backend answers with no
\* records it returns the empty string, and it returns the empty string if
\* and only if no record qualifies or an error occurred.
C10_EmptyStringIffNothingQualifiesOrError ==
  /\ req.op = "kb_retrieve" =>
       /\ ~out.raised
       /\ (req.response = << >> /\ req.err = "none") => out.text = << >>
       /\ out.text = << >> <=>
            \/ req.err # "none"
            \/ \A i \in DOMAIN req.response : get_score(req.response[i]) <= 3
  /\ req.op = "supabase_retrieve" =>
       /\ ~out.raised
       /\ (req.response = << >> /\ req.err = "none") => out.text = << >>
       /\ out.text = << >> <=> (req.err # "none" \/ req.response = << >>)

C10_Witness ==
  /\ req.op = "kb_retrieve" /\ req.err = "none"
  /\ req.response = << >>
  /\ out = [ raised |-> FALSE, text |-> << >> ]

\* C11: a failure at any point of a retrieval (building the query, the
\* embedding service, the store or RPC call, a malformed result) makes
\* retrieve_context return the empty string; no exception reaches the caller,
\* and the router's generation step is reached with that (possibly empty)
\* context.
C11_RetrievalFailureGivesEmptyContext ==
  /\ req.op \in {"kb_retrieve", "supabase_retrieve"} =>
       /\ ~out.raised
       /\ req.err # "none" => out = Returned(<< >>)
  /\ req.op = "generate_reflection" =>
       /\ ~out.raised
       /\ "generation" \in DOMAIN out
       /\ out.generation.enriched_context = kb_retrieve_context(req.response, req.err).text
       /\ req.err # "none" => out.generation.enriched_context = << >>

C11_Witness ==
  /\ req.op = "generate_reflection"
  /\ req.err = "malformed_result"
  /\ \E i \in DOMAIN req.response : get_score(req.response[i]) > KB_SCORE_THRESHOLD
  /\ out.generation.enriched_context = << >>

\* C16: retrieve_context never writes to the persistent store: whatever the
\* inputs and the outcome (results, no results, error), a retrieval leaves the
\* rows of the table, and the backup bucket, as they were; the table changes
\* only in the store step of an ingestion run.
C16_RetrievalLeavesTheStoreUnchanged ==
  [][ /\ req'.op \in {"kb_retrieve", "supabase_retrieve", "generate_reflection"} =>
           store' = store /\ s3' = s3
      /\ store' # store => mode \in {"run", "reruns", "steps", "store"} ]_vars

C16_Witness ==
  /\ req.op = "supabase_retrieve"
  /\ req.err = "none"
  /\ Len(req.response) = 2
  /\ out.text # << >>
  /\ store = SampleRows

\* the "Insight N: ..." entries of a returned text, in the order of the text
InsightEntries(text) == SelectSeq(text, LAMBDA chunk : Len(chunk) = 4)

\* C23 (as claimed): the text retrieve_context returns lists the qualifying
\* records as "Insight N: ..." entries joined by blank lines and numbered
\* N = 1..k without gaps in the order returned, k being the number of records
\* that cleared the threshold, whatever the order of the scores in the list
\* the backend answered with.
C23_InsightsNumberedOneToK ==
  (req.op \in {"kb_retrieve", "supabase_retrieve"} /\ req.err = "none") =>
    LET k == IF req.op = "kb_retrieve"
             THEN Cardinality({ i \in DOMAIN req.response :
                                  get_score(req.response[i]) > KB_SCORE_THRESHOLD })
             ELSE Len(req.response)
        entries == InsightEntries(out.text)
    IN  /\ Len(entries) = k
        /\ \A n \in 1 .. k : entries[n][2] = n
        /\ k > 0 => out.text = enriched(entries)

\* ============================================ claims on the fetch steps
\* the external calls the log holds for target k under the name op
Calls(k, op) == { i \in DOMAIN log : log[i].k = k /\ log[i].op = op }

\* the calls among them that returned
Done(k, op) == { i \in Calls(k, op) : log[i].ok }

C13_EachTargetAttemptedOnce ==
  /\ \A i \in DOMAIN log : log[i].k \in DOMAIN AllTargets
  /\ \A k \in DOMAIN AllTargets :
       /\ \A op \in {"create_browser", "start_browser_session", "goto", "invoke",
                     "return", "recorded"} :
            Cardinality(Calls(k, op)) <= 1
       /\ k \in DOMAIN calls =>
            /\ calls[k].url = AllTargets[k].url
            /\ Cardinality(Calls(k, "return")) = 1
            /\ Cardinality(Calls(k, "recorded")) = 1
  /\ \A i, j \in DOMAIN AllTargets : i # j => AllTargets[i].url # AllTargets[j].url
  /\ Len(calls) <= Len(AllTargets)
  /\ pc = "done" => Len(calls) = Len(AllTargets)

C13_Witness ==
  /\ pc = "done"
  /\ \E k \in DOMAIN outcomes :
       /\ outcomes[k].ext = "timeout"
       /\ Cardinality(Calls(k, "goto")) = 1
       /\ Done(k, "goto") = {}
       /\ Calls(k, "invoke") = {}
       /\ Count(results.failed, outcomes[k].ident) = 1
       /\ k < Len(outcomes)

\* the sessions the run has started and not yet made a stop call for
HeldSessions ==
  { k \in DOMAIN AllTargets :
      Done(k, "start_browser_session") # {} /\ Calls(k, "stop_browser_session") = {} }

ReturnedSummary ==
  /\ pc = "done"
  /\ AllAttempted
  /\ \A k \in DOMAIN outcomes :
       (Calls(k, "goto") # {} /\ Done(k, "goto") = {}) =>
         /\ outcomes[k].ident \in Range(results.failed)
         /\ outcomes[k].ident \notin Range(results.scraped)

\* C17: every ingestion run returns its summary in the end: provided every
\* external call returns or raises (times out), each fetch_and_extract call
\* that was entered returns, a navigation that timed out makes its target a
\* recorded failure, and the run gets to its end after the last target with
\* every target attempted.
C17_RunEventuallyReturnsItsSummary ==
  /\ (pc = "idle") ~> ReturnedSummary
  /\ (fx.pc = "start_browser_session") ~> (fx.pc = "returned")

C17_Witness ==
  /\ pc = "done"
  /\ AllAttempted
  /\ Calls(12, "goto") # {} /\ Done(12, "goto") = {}
  /\ outcomes[12].ident \in Range(results.failed)
  /\ outcomes[13].ident \in Range(results.scraped)
  /\ Len(results.scraped) = Len(AllTargets)
  /\ fx.pc = "idle"

\* ======================================= calculate_positions called directly
\* number of bodies for which swe.calc_ut answers something out of the ordinary
MaxEdge == 1

\* longitudes at a sign boundary, just below one and in the middle of a sign
EdgeLongitudes == { 0, 29994, 29996, 45500, 359999 }

\* speeds: retrograde, direct, and slower than the last digit reported
EdgeSpeeds == { -12345, -4, 0, 6 }

EdgeResults ==
  { Position(l, sp) : l \in EdgeLongitudes, sp \in EdgeSpeeds } \cup { CalcError }

\* the answers of swe.calc_ut that differ from calc_ut(1) for at most MaxEdge
\* bodies
Tables ==
  { [ planet \in Range(PLANETS) |->
        IF planet \in DOMAIN edge THEN edge[planet] ELSE calc_ut(1)[planet] ] :
    edge \in UNION { [ S -> EdgeResults ] :
                       S \in { T \in SUBSET Range(PLANETS) : Cardinality(T) <= MaxEdge } } }

\* one call of EphemerisService.calculate_positions, with the backend and the
\* answers of swe.calc_ut the initial state has drawn
CalculatePositions ==
  /\ mode = "ephemeris"
  /\ req.op = "input"
  /\ out' = calculate_positions(req.swe_available, 1, req.calc)
  /\ req' = [req EXCEPT !.op = "calculate_positions"]
  /\ UNCHANGED << pc, run, today, si, ui, results, calls, outcomes, eph, s3,
                  store, stored, faults, mode >>
  /\ UNCHANGED fetchVars
  /\ UNCHANGED << catalog, writers >>

InitEphemeris ==
  /\ mode = "ephemeris"
  /\ pc = "idle" /\ run = 0 /\ today = 1 /\ si = 1 /\ ui = 1
  /\ results = [ date |-> isoformat(1), scraped |-> << >>, failed |-> << >>,
                 uploaded |-> 0, total |-> 0 ]
  /\ calls = << >> /\ outcomes = << >> /\ eph = "none"
  /\ s3 = << >> /\ store = {} /\ stored = {} /\ faults = 0
  /\ req \in { [ op |-> "input", swe_available |-> a, calc |-> c ] :
                 a \in BOOLEAN, c \in Tables }
  /\ out = << >>
  /\ fx = NoFetch /\ remote = NoRemote /\ log = << >>
  /\ catalog = SCRAPING_SOURCES /\ writers = << >>

NextEphemeris == CalculatePositions

SpecEphemeris == InitEphemeris /\ [][NextEphemeris]_vars

\* the entries of the last answer of calculate_positions that hold a position
PositionEntries ==
  IF req.op = "calculate_positions" /\ "positions" \in DOMAIN out
  THEN { planet \in DOMAIN out.positions : "sign" \in DOMAIN out.positions[planet] }
  ELSE {}

\* C18 (as claimed): for every body entry calculate_positions returns, the
\* reported degrees_in_sign is at least 0 and strictly less than 30, also for
\* a longitude just below a sign boundary.
C18_DegreesInSignBelowThirty ==
  \A planet \in PositionEntries :
    /\ 0 <= out.positions[planet].degrees_in_sign
    /\ out.positions[planet].degrees_in_sign < 30 * DEGREE

\* C19 (as claimed): for every body entry calculate_positions returns, the
\* retrograde flag is true if and only if the reported daily_motion is less
\* than 0, also for a speed smaller than the last digit reported.
C19_RetrogradeIffReportedMotionNegative ==
  \A planet \in PositionEntries :
    out.positions[planet].retrograde <=> out.positions[planet].daily_motion < 0

\* C20 (as claimed): with the backend available calculate_positions returns
\* one entry for each of the 12 bodies, each with a sign, the degrees in the
\* sign and the retrograde flag, also when the calculation of a body fails.
C20_EveryBodyHasAPosition ==
  (req.op = "calculate_positions" /\ req.swe_available) =>
    /\ "positions" \in DOMAIN out
    /\ DOMAIN out.positions = Range(PLANETS)
    /\ \A planet \in Range(PLANETS) :
         {"sign", "degrees_in_sign", "retrograde"} \subseteq DOMAIN out.positions[planet]

\* C20 (amended): with the backend available calculate_positions returns one
\* entry for each of the 12 bodies; the entry of a body whose calculation
\* failed holds the error text alone, every other entry holds a sign, the
\* degrees in the sign and the retrograde flag and is what it would be had no
\* calculation failed.
C20_OneEntryPerBodyFailedOnesHoldTheError ==
  (req.op = "calculate_positions" /\ req.swe_available) =>
    /\ "positions" \in DOMAIN out
    /\ DOMAIN out.positions = Range(PLANETS)
    /\ Cardinality(DOMAIN out.positions) = 12
    /\ \A planet \in Range(PLANETS) :
         IF req.calc[planet] = CalcError
         THEN DOMAIN out.positions[planet] = {"error"}
         ELSE /\ {"sign", "degrees_in_sign", "retrograde"}
                   \subseteq DOMAIN out.positions[planet]
              /\ req.calc[planet] = calc_ut(1)[planet] =>
                   out.positions[planet] =
                     calculate_positions(TRUE, 1, calc_ut(1)).positions[planet]

C20_Witness ==
  /\ req.op = "calculate_positions" /\ req.swe_available
  /\ req.calc["chiron"] = CalcError
  /\ DOMAIN out.positions["chiron"] = {"error"}
  /\ Cardinality(PositionEntries) = 11
  /\ out.positions["sun"].sign = "Aries"

\* C28: for each target put_object is called, and has returned, before
\* store_document is called; store_document is not called, and no row is
\* written, for a target whose put_object failed; so every row of the
\* embedding store has a backup object with its id, content and date.
C28_BackupIsWrittenBeforeTheRow ==
  /\ \A i \in DOMAIN log :
       log[i].op = "store_document" =>
         \E j \in Done(log[i].k, "put_object") : j < i
  /\ \A k \in DOMAIN outcomes :
       outcomes[k].put = "error" =>
         /\ Calls(k, "store_document") = {}
         /\ \A row \in store :
              row.id # doc_id(AllTargets[k].name, AllTargets[k].context, today)
  /\ \A row \in store :
       \E key \in DOMAIN s3 :
         /\ s3[key].id = row.id
         /\ s3[key].content = row.content
         /\ s3[key].metadata.date = row.metadata.date
         /\ key[2] = row.metadata.date

C28_Witness ==
  /\ pc = "done"
  /\ \E k \in DOMAIN outcomes :
       /\ outcomes[k].put = "error"
       /\ Calls(k, "put_object") # {} /\ Done(k, "put_object") = {}
       /\ Calls(k, "store_document") = {}
       /\ \E j \in DOMAIN outcomes :
            \E a \in Done(j, "put_object"), b \in Done(j, "store_document") : a < b
  /\ Cardinality(store) = Len(AllTargets) - 1

\* the calls of fetch_and_extract for target k that raised into its try
\* block; an exception of stop_browser_session or delete_browser is caught
\* inside the context manager and does not reach it
RaisedInFetch(k) ==
  { i \in DOMAIN log :
      /\ log[i].k = k /\ ~log[i].ok
      /\ log[i].op \notin {"stop_browser_session", "delete_browser", "return",
                            "put_object", "store_document"} }

\* C27: fetch_and_extract raises nothing, every call ends in the return of a
\* dictionary; when a call inside its try block failed, at whatever step, the
\* dictionary has success false, data None and an error that is not None;
\* otherwise it has success true, error None and as data the reply of the
\* model as it came (the empty text included); success is true exactly when
\* error is None.
C27_FetchAndExtractReturnsAResult ==
  /\ \A i \in DOMAIN log :
       log[i].op = "recorded" => \E j \in Calls(log[i].k, "return") : j < i
  /\ fx.pc \in {"idle", "start_browser_session", "generate_ws_headers",
                 "connect_over_cdp", "goto", "invoke", "close",
                 "stop_browser_session", "delete_browser", "return", "returned"}
  /\ fx.pc = "returned" =>
       LET url == AllTargets[fx.k].url
           result == fetch_and_extract(url, NoText, run, fx.ext)
       IN  /\ DOMAIN result = {"success", "data", "url", "error"}
           /\ result.success <=> result.error = << >>
           /\ RaisedInFetch(fx.k) # {} =>
                /\ ~result.success
                /\ result.data = << >>
                /\ result.error # << >>
           /\ RaisedInFetch(fx.k) = {} =>
                /\ result.success
                /\ result.error = << >>
                /\ result.data = IF fx.data = "empty" THEN << >> ELSE Reply(run, url)

C27_Witness ==
  /\ fx.pc = "returned"
  /\ fx.data = "text"
  /\ \E i \in RaisedInFetch(fx.k) : log[i].op = "close"
  /\ ~fetch_and_extract(AllTargets[fx.k].url, NoText, run, fx.ext).success
  /\ \E k \in DOMAIN outcomes : outcomes[k].ext = "ok"

\* ========================================= _degrees_to_sign called directly
\* number of full turns below zero and above 360 the longitudes handed to
\* _degrees_to_sign range over
MaxTurns == 1

\* every sign boundary of those turns, the values one thousandth of a degree
\* to either side of it and the middle of the sign, and a negative value
\* nearer to zero than the floats near 360 resolve
SignLongitudes ==
  { float(k * 30 * DEGREE + e) :
      k \in (-12 * MaxTurns) .. (12 * (MaxTurns + 1)), e \in {-1, 0, 1, 15 * DEGREE} }
    \cup { TINY_NEGATIVE }

\* one call of EphemerisService._degrees_to_sign with the longitude the
\* initial state has drawn
DegreesToSign ==
  /\ mode = "sign"
  /\ req.op = "input"
  /\ out' = _degrees_to_sign(req.degrees)
  /\ req' = [req EXCEPT !.op = "_degrees_to_sign"]
  /\ UNCHANGED << pc, run, today, si, ui, results, calls, outcomes, eph, s3,
                  store, stored, faults, mode >>
  /\ UNCHANGED fetchVars
  /\ UNCHANGED << catalog, writers >>

InitSign ==
  /\ mode = "sign"
  /\ pc = "idle" /\ run = 0 /\ today = 1 /\ si = 1 /\ ui = 1
  /\ results = [ date |-> isoformat(1), scraped |-> << >>, failed |-> << >>,
                 uploaded |-> 0, total |-> 0 ]
  /\ calls = << >> /\ outcomes = << >> /\ eph = "none"
  /\ s3 = << >> /\ store = {} /\ stored = {} /\ faults = 0
  /\ req \in { [ op |-> "input", degrees |-> d ] : d \in SignLongitudes }
  /\ out = << >>
  /\ fx = NoFetch /\ remote = NoRemote /\ log = << >>
  /\ catalog = SCRAPING_SOURCES /\ writers = << >>

NextSign == DegreesToSign

SpecSign == InitSign /\ [][NextSign]_vars

\* the index in ZODIAC_SIGNS of the sign the longitude lies in: the whole
\* number of 30 degree steps in the longitude reduced modulo 360 as a real
\* number, which for a value less than a multiple of 360 is short of 360
floor_index(degrees) ==
  ((degrees.thousandths - (IF degrees.less THEN 1 ELSE 0)) % (360 * DEGREE))
     \div (30 * DEGREE) + 1

\* C21 (as claimed): _degrees_to_sign gives every longitude, negative ones
\* and ones of 360 and more included, the sign at index floor(L / 30) of the
\* longitude normalised modulo 360; exactly one entry of ZODIAC_SIGNS takes
\* the normalised value, a boundary 30k going to the later sign, so that the
\* 'Pisces' fallback after the loop is never reached.
C21_OneSignPerLongitudeFallbackUnreached ==
  req.op = "_degrees_to_sign" =>
    /\ out.sign = SIGN_STARTS[floor_index(req.degrees)][1]
    /\ out = _degrees_to_sign(req.degrees)
    /\ Cardinality(signs_at(mod360(req.degrees))) = 1
    /\ (~req.degrees.less /\ req.degrees.thousandths % (30 * DEGREE) = 0) =>
         out.degrees = 0

\* ========================================================= the query builders
\* dict.get(key, key) of Python: the value of a key the dictionary has, the
\* key itself otherwise
get(dictionary, key) ==
  IF key \in DOMAIN dictionary THEN dictionary[key] ELSE key

\* " ".join(query_parts): the parts with one space between neighbours
space_join(query_parts) ==
  LET RECURSIVE joined(_)
      joined(n) ==
        IF n = 0 THEN << >>
        ELSE IF n = 1 THEN query_parts[1]
        ELSE joined(n - 1) \o << " " >> \o query_parts[n]
  IN  joined(Len(query_parts))

\* actions[:3]
first_three(actions) ==
  SubSeq(actions, 1, IF Len(actions) < 3 THEN Len(actions) ELSE 3)

\* mood_keywords of both builders (the two dictionaries are the same text)
mood_keywords ==
  [ mood \in {"great", "good", "neutral", "sad"} |->
      CASE mood = "great" -> "joyful positive uplifting"
        [] mood = "good" -> "balanced harmonious"
        [] mood = "neutral" -> "centered grounded"
        [] mood = "sad" -> "emotional healing transformation" ]

\* action_themes of both builders (the two dictionaries are the same text)
action_themes ==
  [ action \in {"helped", "loved", "meditated", "worked", "created", "learned",
                "exercised", "rested", "argued", "lied"} |->
      CASE action = "helped" -> "service compassion"
        [] action = "loved" -> "love connection"
        [] action = "meditated" -> "meditation spiritual practice"
        [] action = "worked" -> "productivity ambition"
        [] action = "created" -> "creativity manifestation"
        [] action = "learned" -> "wisdom knowledge"
        [] action = "exercised" -> "vitality physical energy"
        [] action = "rested" -> "restoration self-care"
        [] action = "argued" -> "conflict challenge"
        [] action = "lied" -> "shadow work truth" ]

\* a moon sign is None ({}) or a string ({text}); `if moon_sign:` takes a
\* string that is not empty
truthy(moon_sign) == moon_sign # {} /\ moon_sign # {""}

\* a builder that appends a theme for every action and not the first three
VectorRetrievalService_build_search_query_all_actions(sun_sign, moon_sign, mood, actions, zodiac_element) ==
  space_join(
    << << sun_sign, " zodiac sign" >> >>
    \o (IF truthy(moon_sign)
        THEN << << CHOOSE text \in moon_sign : TRUE, " moon sign" >> >>
        ELSE << >>)
    \o << << zodiac_element, " element energy" >> >>
    \o << << get(mood_keywords, mood) >> >>
    \o [ i \in DOMAIN actions |-> << get(action_themes, actions[i]) >> ])

\* VectorRetrievalService._build_search_query, which SupabaseVectorService
\* inherits
VectorRetrievalService_build_search_query(sun_sign, moon_sign, mood, actions, zodiac_element) ==
  space_join(
    << << sun_sign, " zodiac sign" >> >>
    \o (IF truthy(moon_sign)
        THEN << << CHOOSE text \in moon_sign : TRUE, " moon sign" >> >>
        ELSE << >>)
    \o << << zodiac_element, " element energy" >> >>
    \o << << get(mood_keywords, mood) >> >>
    \o [ i \in DOMAIN first_three(actions) |->
           << get(action_themes, first_three(actions)[i]) >> ])

\* a builder that puts the moon sign after the element
KBRetrievalService_build_search_query_element_first(sun_sign, moon_sign, mood, actions, zodiac_element) ==
  space_join(
    << << sun_sign, " zodiac sign" >> >>
    \o << << zodiac_element, " element energy" >> >>
    \o (IF truthy(moon_sign)
        THEN << << CHOOSE text \in moon_sign : TRUE, " moon sign" >> >>
        ELSE << >>)
    \o << << get(mood_keywords, mood) >> >>
    \o [ i \in DOMAIN first_three(actions) |->
           << get(action_themes, first_three(actions)[i]) >> ])

\* KBRetrievalService._build_search_query
KBRetrievalService_build_search_query(sun_sign, moon_sign, mood, actions, zodiac_element) ==
  space_join(
    << << sun_sign, " zodiac sign" >> >>
    \o (IF truthy(moon_sign)
        THEN << << CHOOSE text \in moon_sign : TRUE, " moon sign" >> >>
        ELSE << >>)
    \o << << zodiac_element, " element energy" >> >>
    \o << << get(mood_keywords, mood) >> >>
    \o [ i \in DOMAIN first_three(actions) |->
           << get(action_themes, first_three(actions)[i]) >> ])

\* longest list of actions a profile holds
MaxActions == 4

\* profiles: moods and actions the dictionaries have and ones they lack, no
\* moon sign, an empty one and a real one
SampleSunSigns == { "Capricorn", "Leo" }
SampleMoonSigns == { {}, {""}, {"Virgo"} }
SampleMoods == { "good", "sad", "anxious" }
SampleActions == { "helped", "meditated", "danced" }

Profiles ==
  { [ op |-> "input", sun_sign |-> sun, moon_sign |-> moon, mood |-> mood,
      actions |-> actions, zodiac_element |-> "Earth" ] :
    sun \in SampleSunSigns, moon \in SampleMoonSigns, mood \in SampleMoods,
    actions \in BoundedSeq(SampleActions, MaxActions) }

\* one call of KBRetrievalService._build_search_query
KBBuildSearchQuery ==
  /\ mode = "query"
  /\ req.op = "input"
  /\ out' = KBRetrievalService_build_search_query(
              req.sun_sign, req.moon_sign, req.mood, req.actions, req.zodiac_element)
  /\ req' = [req EXCEPT !.op = "KBRetrievalService"]
  /\ UNCHANGED << pc, run, today, si, ui, results, calls, outcomes, eph, s3,
                  store, stored, faults, mode >>
  /\ UNCHANGED fetchVars
  /\ UNCHANGED << catalog, writers >>

\* one call of SupabaseVectorService._build_search_query
VectorBuildSearchQuery ==
  /\ mode = "query"
  /\ req.op = "input"
  /\ out' = VectorRetrievalService_build_search_query(
              req.sun_sign, req.moon_sign, req.mood, req.actions, req.zodiac_element)
  /\ req' = [req EXCEPT !.op = "VectorRetrievalService"]
  /\ UNCHANGED << pc, run, today, si, ui, results, calls, outcomes, eph, s3,
                  store, stored, faults, mode >>
  /\ UNCHANGED fetchVars
  /\ UNCHANGED << catalog, writers >>

InitQuery ==
  /\ mode = "query"
  /\ pc = "idle" /\ run = 0 /\ today = 1 /\ si = 1 /\ ui = 1
  /\ results = [ date |-> isoformat(1), scraped |-> << >>, failed |-> << >>,
                 uploaded |-> 0, total |-> 0 ]
  /\ calls = << >> /\ outcomes = << >> /\ eph = "none"
  /\ s3 = << >> /\ store = {} /\ stored = {} /\ faults = 0
  /\ req \in Profiles
  /\ out = << >>
  /\ fx = NoFetch /\ remote = NoRemote /\ log = << >>
  /\ catalog = SCRAPING_SOURCES /\ writers = << >>

NextQuery == KBBuildSearchQuery \/ VectorBuildSearchQuery

SpecQuery == InitQuery /\ [][NextQuery]_vars

Built == req.op \in {"KBRetrievalService", "VectorRetrievalService"}

\* the words of a query: what lies between its spaces
RECURSIVE Words(_)
Words(query) ==
  IF query = << >> THEN << >>
  ELSE LET rest == Words(Tail(query))
       IN  IF Head(query) = " " THEN << << >> >> \o rest
           ELSE IF rest = << >> THEN << << Head(query) >> >>
           ELSE << << Head(query) >> \o Head(rest) >> \o Tail(rest)

\* C22: the query either builder returns is, joined by single spaces and in
\* this order, the sun sign part, the moon sign part exactly when a moon
\* sign is present, the element part, the keywords of the mood (the mood
\* itself when it has none) and one theme for each of the first min(3, n)
\* actions in their order (the action itself when it has none); an action
\* after the third changes nothing.
C22_QueryIsThePartsInOrder ==
  Built =>
    LET n == IF Len(req.actions) < 3 THEN Len(req.actions) ELSE 3
        present == req.moon_sign \notin { {}, {""} }
        moon == IF present THEN 1 ELSE 0
        words == Words(out)
    IN  /\ Len(words) = 3 + moon + n
        /\ words[1] = << req.sun_sign, " zodiac sign" >>
        /\ present <=> \E i \in DOMAIN words : \E t \in req.moon_sign :
                         words[i] = << t, " moon sign" >>
        /\ present => words[2] = << CHOOSE t \in req.moon_sign : TRUE, " moon sign" >>
        /\ words[2 + moon] = << req.zodiac_element, " element energy" >>
        /\ words[3 + moon] =
              << IF req.mood \in DOMAIN mood_keywords
                 THEN mood_keywords[req.mood] ELSE req.mood >>
        /\ \A i \in 1 .. n :
             words[3 + moon + i] =
               << IF req.actions[i] \in DOMAIN action_themes
                  THEN action_themes[req.actions[i]] ELSE req.actions[i] >>
        /\ \A other \in Profiles :
             (/\ other.sun_sign = req.sun_sign /\ other.moon_sign = req.moon_sign
              /\ other.mood = req.mood
              /\ Len(other.actions) >= n
              /\ SubSeq(other.actions, 1, n) = SubSeq(req.actions, 1, n)
              /\ Len(req.actions) >= 3 /\ Len(other.actions) >= 3)
             => /\ out = KBRetrievalService_build_search_query(
                           other.sun_sign, other.moon_sign, other.mood,
                           other.actions, other.zodiac_element)
                /\ out = VectorRetrievalService_build_search_query(
                           other.sun_sign, other.moon_sign, other.mood,
                           other.actions, other.zodiac_element)

C22_Witness ==
  /\ req.op = "VectorRetrievalService"
  /\ req.sun_sign = "Capricorn" /\ req.moon_sign = {"Virgo"} /\ req.mood = "anxious"
  /\ req.actions = << "helped", "danced", "meditated", "helped" >>
  /\ out = << "Capricorn", " zodiac sign", " ", "Virgo", " moon sign", " ",
              "Earth", " element energy", " ", "anxious", " ",
              "service compassion", " ", "danced", " ",
              "meditation spiritual practice" >>

\* C30: for every profile the builder of KBRetrievalService and the builder
\* SupabaseVectorService inherits from VectorRetrievalService return the same
\* query, so the text that is embedded does not depend on the backend.
C30_BothBuildersReturnTheSameQuery ==
  /\ req.op = "KBRetrievalService" =>
       out = VectorRetrievalService_build_search_query(
               req.sun_sign, req.moon_sign, req.mood, req.actions, req.zodiac_element)
  /\ req.op = "VectorRetrievalService" =>
       out = KBRetrievalService_build_search_query(
               req.sun_sign, req.moon_sign, req.mood, req.actions, req.zodiac_element)

C30_Witness ==
  /\ req.op = "KBRetrievalService"
  /\ req.sun_sign = "Leo" /\ req.moon_sign = {} /\ req.mood = "sad"
  /\ req.actions = << "danced", "helped", "helped", "meditated" >>
  /\ out = << "Leo", " zodiac sign", " ", "Earth", " element energy", " ",
              "emotional healing transformation", " ", "danced", " ",
              "service compassion", " ", "service compassion" >>

\* ================================ store_document calls of overlapping runs
\* number of ingestion runs whose store_document calls overlap
MaxWriters == 2

\* store_document has not been called by the run
IdleWriter == [ pc |-> "idle" ]

\* the upsert of line 168 with the locals of the call
writer_payload(w) ==
  [ id |-> w.document_id,
    content |-> w.content,
    metadata |-> w.metadata,
    embedding |-> w.embedding,
    created_at |-> w.metadata.scraped_at ]

\* store_document is called by run p, with an id another run may use too
CallStoreDocument(p) ==
  /\ mode = "concurrent"
  /\ writers[p].pc = "idle"
  /\ \E document_id \in SampleIds, content \in SampleContents :
       writers' = [writers EXCEPT ![p] =
         [ pc |-> "embed", document_id |-> document_id, content |-> content,
           metadata |-> [ (CHOOSE m \in SampleMetadata : m.scraped_at = << "utcnow", 1 >>)
                          EXCEPT !.scraped_at = << "utcnow", p >> ],
           embedding |-> << >>, ret |-> << >> ]]
  /\ UNCHANGED << pc, run, today, si, ui, results, calls, outcomes, eph, s3, store,
                  stored, faults, mode, req, out, catalog >>
  /\ UNCHANGED fetchVars

\* store_document, line 165: the embedding of the content is asked for and
\* kept in a local; an exception ends the call with False
GenerateEmbedding(p) ==
  /\ mode = "concurrent"
  /\ writers[p].pc = "embed"
  /\ \E ok \in BOOLEAN :
       /\ Outcome(ok)
       /\ writers' = [writers EXCEPT ![p] =
            IF ok
            THEN [@ EXCEPT !.pc = "upsert",
                           !.embedding = _generate_embedding(writers[p].content)]
            ELSE [@ EXCEPT !.pc = "done", !.ret = << FALSE >>]]
  /\ UNCHANGED << pc, run, today, si, ui, results, calls, outcomes, eph, s3, store,
                  stored, mode, req, out, catalog >>
  /\ UNCHANGED fetchVars

\* an upsert that carries the id, the content and the metadata but not the
\* vector
UpsertRow_without_vector(p) ==
  /\ mode = "concurrent"
  /\ writers[p].pc = "upsert"
  /\ \E ok \in BOOLEAN :
       /\ Outcome(ok)
       /\ store' = IF ok
                   THEN upsert(store, [ c \in Columns \ {"embedding"} |->
                                          writer_payload(writers[p])[c] ])
                   ELSE store
       /\ log' = IF ok THEN Append(log, Event(p, "upsert", TRUE)) ELSE log
       /\ writers' = [writers EXCEPT ![p] = [@ EXCEPT !.pc = "done", !.ret = << ok >>]]
  /\ UNCHANGED << pc, run, today, si, ui, results, calls, outcomes, eph, s3,
                  stored, mode, req, out, catalog, fx, remote >>

\* store_document, lines 168-177: the one upsert statement, which the
\* database executes as a whole; an exception ends the call with False
UpsertRow(p) ==
  /\ mode = "concurrent"
  /\ writers[p].pc = "upsert"
  /\ \E ok \in BOOLEAN :
       /\ Outcome(ok)
       /\ store' = IF ok THEN upsert(store, writer_payload(writers[p])) ELSE store
       /\ log' = IF ok THEN Append(log, Event(p, "upsert", TRUE)) ELSE log
       /\ writers' = [writers EXCEPT ![p] = [@ EXCEPT !.pc = "done", !.ret = << ok >>]]
  /\ UNCHANGED << pc, run, today, si, ui, results, calls, outcomes, eph, s3,
                  stored, mode, req, out, catalog, fx, remote >>

\* a retrieval made while the runs write: the rows the RPC answers with
ConcurrentRetrieve ==
  /\ mode = "concurrent"
  /\ \E response \in match_astrology_documents(store, [ row \in store |-> 4 ],
                                                 MATCH_THRESHOLD, 5) :
       /\ out' = response
       /\ out' # out
  /\ req' = [ op |-> "supabase_retrieve" ]
  /\ UNCHANGED << pc, run, today, si, ui, results, calls, outcomes, eph, s3, store,
                  stored, faults, mode, catalog, writers >>
  /\ UNCHANGED fetchVars

InitConcurrent ==
  /\ mode = "concurrent"
  /\ pc = "idle" /\ run = 0 /\ today = 1 /\ si = 1 /\ ui = 1
  /\ results = [ date |-> isoformat(1), scraped |-> << >>, failed |-> << >>,
                 uploaded |-> 0, total |-> 0 ]
  /\ calls = << >> /\ outcomes = << >> /\ eph = "none"
  /\ s3 = << >> /\ store = {} /\ stored = {} /\ faults = 0
  /\ req = NoRequest /\ out = << >>
  /\ fx = NoFetch /\ remote = NoRemote /\ log = << >>
  /\ catalog = SCRAPING_SOURCES
  /\ writers = [ p \in 1 .. MaxWriters |-> IdleWriter ]

NextConcurrent ==
  \/ \E p \in 1 .. MaxWriters : CallStoreDocument(p)
  \/ \E p \in 1 .. MaxWriters : GenerateEmbedding(p)
  \/ \E p \in 1 .. MaxWriters : UpsertRow(p)
  \/ ConcurrentRetrieve

SpecConcurrent == InitConcurrent /\ [][NextConcurrent]_vars

\* the store_document calls that have made their upsert
Upserted == { p \in DOMAIN writers : writers[p].pc = "done" /\ writers[p].ret = << TRUE >> }

\* the last of the upserts made so far under the id
LastUpsert(document_id) ==
  LET made == { i \in DOMAIN log : writers[log[i].k].document_id = document_id }
  IN  log[CHOOSE i \in made : \A j \in made : j <= i].k

\* C24: whatever the interleaving of the store_document calls of two runs,
\* and of retrievals, every row the embedding store holds and every record a
\* retrieval is given is the result of one store_document call as a whole:
\* its vector is the embedding of its own content and its content, metadata
\* and date are those of the same call, and the row under an id is that of
\* the last upsert made under it.
C24_EveryRowIsOneWholeWrite ==
  /\ \A row \in store :
       /\ row.embedding = _generate_embedding(row.content)
       /\ \E p \in Upserted : row = writer_payload(writers[p])
       /\ row = writer_payload(writers[LastUpsert(row.id)])
       /\ \A other \in store : other.id = row.id => other = row
  /\ \A i \in DOMAIN out :
       \E p \in Upserted :
         /\ out[i].id = writers[p].document_id
         /\ out[i].content = writers[p].content
         /\ out[i].metadata = writers[p].metadata

C24_Witness ==
  /\ Cardinality(Upserted) = 2
  /\ writers[1].document_id = writers[2].document_id
  /\ writers[1].content # writers[2].content
  /\ log = << Event(2, "upsert", TRUE), Event(1, "upsert", TRUE) >>
  /\ store = { writer_payload(writers[1]) }
  /\ Len(out) = 1 /\ out[1].content = writers[2].content

====
